---- MODULE Spec2Model ----
(***************************************************************************)
(* Publication lifecycle of anytype-publish-server: the metadata           *)
(* repository (publish/publishrepo/publishrepo.go) over the two MongoDB    *)
(* collections "object" and "publish", the transaction wrapper (db/db.go), *)
(* the publish service with its streaming upload and its periodic Cleanup  *)
(* (publish/service.go), the blob store (store/store.go) and the gateway   *)
(* that serves the rendered pages through a redis cache                    *)
(* (gateway/gateway.go).                                                   *)
(*                                                                         *)
(* MongoDB is modelled as it behaves for this code: _id is unique in each  *)
(* collection; a statement outside a transaction reads and writes the      *)
(* committed state; a transaction reads the snapshot taken when it starts, *)
(* and fails with a write conflict when a document it writes was written   *)
(* by somebody else after that snapshot.  db.Tx does not retry.            *)
(***************************************************************************)
EXTENDS Integers, Sequences, FiniteSets, TLC

\* ---------------------------------------------------------------- inputs
Identities == {"a1"}
SpaceIds == {"s1"}
ObjectIds == {"o1", "o2"}
Uris == {"u1", "u2"}
Versions == {"v1", "v2"}

\* Number of ids primitive.NewObjectID() hands out in a run, and in a run
\* of the specifications that draw their requests from all the names.
MaxPublishes == 3
FewPublishes == 2
\* Last value of the clock; the clock counts hours.
MaxClock == 2
\* time.Hour in clock units (service.go, Cleanup: before = now - 1h).
Hour == 1
\* var defaultLimit = 10 << 20
defaultLimit == 10485760

\* Concurrent repository transactions and concurrent upload requests.
TxSlots == {1, 2}
UploadSlots == {1, 2}

\* ----------------------------------------------------------- domain types
\* domain.PublishStatus (iota)
PublishStatusCreated == 0
PublishStatusPublished == 1
PublishStatusReadyToDelete == 2

\* primitive.ObjectID: a creation time followed by a counter; the nil
\* *primitive.ObjectID of Object.ActivePublishId is the empty tuple.
NilId == << >>
NewObjectID(t, n) == <<t, n>>
\* primitive.NewObjectIDFromTimestamp: the time, all other bytes zero.
NewObjectIDFromTimestamp(t) == <<t, 0>>
\* Byte order of two ObjectIDs, as MongoDB's $lt compares them.
IdLess(a, b) == \/ a[1] < b[1]
                \/ a[1] = b[1] /\ a[2] < b[2]

\* uuid.New().String(); the cleared key "" is the empty tuple.
EmptyKey == << >>
NewUploadKey(n) == <<"uuid", n>>

\* A faulty _id: the uri alone.
DerivedIdOfUri(identity, uri) == uri

\* objectId := object.Identity + "/" + object.Uri
DerivedId(identity, uri) == identity \o "/" \o uri

\* domain.Object as decoded from the "object" collection.
NewObject(identity, spaceId, objectId, uri, ts) ==
    [id |-> DerivedId(identity, uri), activePublishId |-> NilId,
     identity |-> identity, spaceId |-> spaceId, objectId |-> objectId,
     uri |-> uri, timestamp |-> ts]

\* The request object of the RPC handlers: identity, space, object, uri.
Request(identity, spaceId, objectId, uri) ==
    [identity |-> identity, spaceId |-> spaceId, objectId |-> objectId, uri |-> uri]

\* The zero domain.Object and the nil *domain.Publish.
NoObject == [id |-> "", activePublishId |-> NilId, identity |-> "", spaceId |-> "",
             objectId |-> "", uri |-> "", timestamp |-> 0]
NoPublish == [id |-> NilId, objectId |-> "", status |-> PublishStatusCreated,
              version |-> "", uploadKey |-> EmptyKey, size |-> 0]

VARIABLES
    objectsColl,   \* collection "object": set of domain.Object, _id = id
    publishColl,   \* collection "publish": set of domain.Publish, _id = id
    blobs,         \* the bucket: set of keys <<publishId, path>>
    now,           \* the clock
    nextId,        \* counter of NewObjectID / uuid.New
    txs,           \* open repository transactions, by slot
    uploads,       \* running UploadTar requests, by slot
    gc,            \* the Cleanup tick in progress
    last,          \* the call that returned in the last step, with its result
    hist,          \* history: successes per publish, publishes unpublished
    budget,        \* the number of ids the run hands out
    gw             \* the gateways: callback, shared page cache, page requests

vars == <<objectsColl, publishColl, blobs, now, nextId, txs, uploads, gc, last, hist,
          budget, gw>>

\* --------------------------------------------------------- collections
ObjKey(id) == <<"object", id>>
PubKey(id) == <<"publish", id>>

HasObject(objs, id) == \E o \in objs : o.id = id
HasPublish(pubs, id) == \E p \in pubs : p.id = id
TheObject(objs, id) == CHOOSE o \in objs : o.id = id
ThePublish(pubs, id) == CHOOSE p \in pubs : p.id = id

\* FindOne(bson.D{identity, spaceId, objectId}): the compound index of
\* objectIndexes is not unique, so several documents may match.
FindByObject(objs, object) ==
    {o \in objs : /\ o.identity = object.identity
                  /\ o.spaceId = object.spaceId
                  /\ o.objectId = object.objectId}

\* A session: the collections as the transaction sees them, the keys it has
\* written, and the error that ended its body ("" while none).
Session(objs, pubs) == [objs |-> objs, pubs |-> pubs, w |-> {}, err |-> ""]
Fail(st, e) == [st EXCEPT !.err = e]

\* A faulty InsertOne: no unique index on _id.
objInsertOneNoUnique(st, doc) ==
    [st EXCEPT !.objs = @ \cup {doc}, !.w = @ \cup {ObjKey(doc.id)}]

\* objectsColl.InsertOne: a duplicate-key error when _id is taken.
objInsertOne(st, doc) ==
    IF HasObject(st.objs, doc.id)
    THEN Fail(st, "duplicate key")
    ELSE [st EXCEPT !.objs = @ \cup {doc}, !.w = @ \cup {ObjKey(doc.id)}]

\* objectsColl.DeleteOne(bson.D{{"_id", id}})
objDeleteOne(st, id) ==
    IF HasObject(st.objs, id)
    THEN [st EXCEPT !.objs = {o \in @ : o.id # id}, !.w = @ \cup {ObjKey(id)}]
    ELSE st

\* objectsColl.UpdateOne(_id, $set activePublishId): no match is no error.
objUpdateOne(st, id, active) ==
    IF HasObject(st.objs, id)
    THEN [st EXCEPT !.objs = {IF o.id = id THEN [o EXCEPT !.activePublishId = active] ELSE o
                              : o \in @},
                    !.w = @ \cup {ObjKey(id)}]
    ELSE st

\* publishColl.InsertOne
pubInsertOne(st, doc) ==
    IF HasPublish(st.pubs, doc.id)
    THEN Fail(st, "duplicate key")
    ELSE [st EXCEPT !.pubs = @ \cup {doc}, !.w = @ \cup {PubKey(doc.id)}]

\* publishColl.UpdateOne(_id, $set status): no match is no error.
pubSetStatus(st, id, status) ==
    IF HasPublish(st.pubs, id)
    THEN [st EXCEPT !.pubs = {IF p.id = id THEN [p EXCEPT !.status = status] ELSE p
                              : p \in @},
                    !.w = @ \cup {PubKey(id)}]
    ELSE st

\* publishColl.UpdateOne(_id, $set status, size): the stored uploadKey is
\* not among the fields that are set.
pubSetStatusSize(st, id, status, size) ==
    IF HasPublish(st.pubs, id)
    THEN [st EXCEPT !.pubs = {IF p.id = id THEN [p EXCEPT !.status = status, !.size = size]
                              ELSE p : p \in @},
                    !.w = @ \cup {PubKey(id)}]
    ELSE st

\* ------------------------------------------------------------- db.Tx
\* A faulty Tx: the body's writes stay when the body returns an error.
TxNoAbort(before, after) == after

\* database.Tx: AbortTransaction when f returns an error, else
\* CommitTransaction.  The session the caller is left with.
Tx(before, after) == IF after.err # "" THEN [before EXCEPT !.err = after.err] ELSE after

\* The documents a committing session replaces, by key.
ApplyObjs(objs, st) ==
    {o \in objs : ObjKey(o.id) \notin st.w} \cup {o \in st.objs : ObjKey(o.id) \in st.w}
ApplyPubs(pubs, st) ==
    {p \in pubs : PubKey(p.id) \notin st.w} \cup {p \in st.pubs : PubKey(p.id) \in st.w}

\* A write outside the open transactions marks its keys in each of them.
Touch(t, keys) ==
    [s \in TxSlots |-> IF t[s].op = "" THEN t[s] ELSE [t[s] EXCEPT !.dirty = @ \cup keys]]


\* ------------------------------------------------------- publishrepo.go
\* markPublishToDelete
markPublishToDelete(st, id) == pubSetStatus(st, id, PublishStatusReadyToDelete)

\* A faulty createPublish: no upload key is drawn.
createPublishKeyless(st, object, version, id, key) ==
    pubInsertOne(st, [id |-> id, objectId |-> object.id, status |-> PublishStatusCreated,
                      version |-> version, uploadKey |-> EmptyKey, size |-> 0])

\* createPublish: a fresh id, status CREATED, a fresh uploadKey.
createPublish(st, object, version, id, key) ==
    pubInsertOne(st, [id |-> id, objectId |-> object.id, status |-> PublishStatusCreated,
                      version |-> version, uploadKey |-> key, size |-> 0])

\* The object as changeObjectUri leaves it behind its pointer.
MovedObject(object, uri) ==
    [object EXCEPT !.id = DerivedId(object.identity, uri), !.uri = uri]

\* A faulty changeObjectUri: the duplicate-key error is returned as it is.
changeObjectUriRaw(st, object, uri) ==
    objInsertOne(objDeleteOne(st, object.id), MovedObject(object, uri))

\* A faulty changeObjectUri: nothing is written.
changeObjectUriNothing(st, object, uri) == st

\* A faulty changeObjectUri: the document under the old _id is left.
changeObjectUriKeepOld(st, object, uri) ==
    LET i == objInsertOne(st, MovedObject(object, uri))
    IN  IF i.err = "duplicate key" THEN Fail(i, "ErrUriNotUnique") ELSE i

\* changeObjectUri: DeleteOne under the old _id, InsertOne under the new.
changeObjectUri(st, object, uri) ==
    LET d == objDeleteOne(st, object.id)
        i == objInsertOne(d, MovedObject(object, uri))
    IN  IF i.err = "duplicate key" THEN Fail(i, "ErrUriNotUnique") ELSE i

\* The object ObjectCreate returns in publish.Object.
CreatedObject(object, existing, ts) ==
    IF existing = NoObject
    THEN NewObject(object.identity, object.spaceId, object.objectId, object.uri, ts)
    ELSE IF existing.uri # object.uri THEN MovedObject(existing, object.uri) ELSE existing

\* The prevUri ObjectCreate returns: the uri the existing Object had when
\* the call changes it, else the empty string.
PrevUri(object, existing) ==
    IF existing # NoObject /\ existing.uri # object.uri THEN existing.uri ELSE ""

\* The body ObjectCreate hands to db.Tx.  existing is what FindOne decoded
\* (NoObject for mongo.ErrNoDocuments).
ObjectCreateBody(st, object, version, existing, ts, id, key) ==
    LET s1 == IF existing # NoObject
              THEN IF existing.uri # object.uri
                   THEN changeObjectUri(st, existing, object.uri)
                   ELSE st
              ELSE LET i == objInsertOne(st, CreatedObject(object, existing, ts))
                   IN  IF i.err = "duplicate key" THEN Fail(i, "ErrUriNotUnique") ELSE i
    IN  IF s1.err # "" THEN s1
        ELSE createPublish(s1, CreatedObject(object, existing, ts), version, id, key)

\* A faulty ObjectDelete: the active publish is left as it is.
ObjectDeleteBodyNoMark(st, existing) ==
    IF existing = NoObject THEN Fail(st, "mongo.ErrNoDocuments")
    ELSE objDeleteOne(st, existing.id)

\* The body ObjectDelete hands to db.Tx.
ObjectDeleteBody(st, existing) ==
    IF existing = NoObject THEN Fail(st, "mongo.ErrNoDocuments")
    ELSE LET s1 == objDeleteOne(st, existing.id)
         IN  IF existing.activePublishId # NilId
             THEN markPublishToDelete(s1, existing.activePublishId)
             ELSE s1

\* The body FinalizePublish hands to db.Tx; publish is the ObjectWithPublish
\* of the caller.  failAt is the statement (1 mark previous, 2 update
\* publish, 3 update object) at which the driver returns an error, 0 none.
FinalizePublishBody(st, publish, failAt) ==
    LET obj == publish.object
        s1 == IF obj.activePublishId # NilId
              THEN IF failAt = 1 THEN Fail(st, "db error")
                   ELSE markPublishToDelete(st, obj.activePublishId)
              ELSE st
        s2 == IF s1.err # "" THEN s1
              ELSE IF failAt = 2 THEN Fail(s1, "db error")
              ELSE pubSetStatusSize(s1, publish.publish.id, publish.publish.status,
                                    publish.publish.size)
        s3 == IF s2.err # "" THEN s2
              ELSE IF failAt = 3 THEN Fail(s2, "db error")
              ELSE objUpdateOne(s2, obj.id, publish.publish.id)
    IN  s3

\* A faulty getPublishByQuery: for an object without activePublishId it
\* looks the publish up by the id of the object.
WithPublishOfObject(pubs, obj) ==
    IF obj.activePublishId = NilId
    THEN IF \E p \in pubs : p.objectId = obj.id
         THEN [err |-> "", object |-> obj,
               publish |-> CHOOSE p \in pubs : p.objectId = obj.id]
         ELSE [err |-> "", object |-> obj, publish |-> NoPublish]
    ELSE IF HasPublish(pubs, obj.activePublishId)
    THEN [err |-> "", object |-> obj, publish |-> ThePublish(pubs, obj.activePublishId)]
    ELSE [err |-> "ErrNoDocuments", object |-> [obj EXCEPT !.activePublishId = NilId],
          publish |-> NoPublish]

\* getPublishByQuery(query, true) on a found object: the publish of
\* activePublishId.  When the publish is missing, activePublishId is
\* cleared in the result and the named result err keeps the
\* mongo.ErrNoDocuments of the second FindOne up to the final return.
WithPublish(pubs, obj) ==
    IF obj.activePublishId = NilId
    THEN [err |-> "", object |-> obj, publish |-> NoPublish]
    ELSE IF HasPublish(pubs, obj.activePublishId)
    THEN [err |-> "", object |-> obj, publish |-> ThePublish(pubs, obj.activePublishId)]
    ELSE [err |-> "ErrNoDocuments", object |-> [obj EXCEPT !.activePublishId = NilId],
          publish |-> NoPublish]

NotFound == [err |-> "ErrNotFound", object |-> NoObject, publish |-> NoPublish]

\* ResolveUri: getPublishByQuery(bson.D{{"_id", identity + "/" + uri}}, true)
ResolveUri(objs, pubs, identity, uri) ==
    IF HasObject(objs, DerivedId(identity, uri))
    THEN WithPublish(pubs, TheObject(objs, DerivedId(identity, uri)))
    ELSE NotFound

\* ObjectPublishStatus: getPublishByQuery(identity, spaceId, objectId): the
\* results FindOne may give.
ObjectPublishStatus(objs, pubs, object) ==
    IF FindByObject(objs, object) = {} THEN {NotFound}
    ELSE {WithPublish(pubs, o) : o \in FindByObject(objs, object)}

\* ListPublishes(identity, spaceId): the Objects of the identity (of the
\* space, unless spaceId is empty), each with the Publish of its
\* activePublishId; the error of that FindOne is dropped and the Object is
\* returned as it is stored.
ListPublishes(objs, pubs, identity, spaceId) ==
    {[object |-> o,
      publish |-> IF o.activePublishId # NilId /\ HasPublish(pubs, o.activePublishId)
                  THEN ThePublish(pubs, o.activePublishId) ELSE NoPublish] :
        o \in {x \in objs : x.identity = identity /\ (spaceId = "" \/ x.spaceId = spaceId)}}

\* A faulty query: the status is not part of it.
OutdatedPublishesAnyStatus(pubs, before) ==
    {p \in pubs : IdLess(p.id, NewObjectIDFromTimestamp(before))}

\* The query of DeleteOutdatedPublishes: status CREATED, _id < id of before.
OutdatedPublishes(pubs, before) ==
    {p \in pubs : /\ p.status = PublishStatusCreated
                  /\ IdLess(p.id, NewObjectIDFromTimestamp(before))}

\* DeleteOutdatedPublishes: publishColl.DeleteMany and res.DeletedCount.
DeleteOutdatedPublishes(pubs, before) ==
    [pubs |-> pubs \ OutdatedPublishes(pubs, before),
     deleted |-> Cardinality(OutdatedPublishes(pubs, before))]

\* DeleteOutdatedObjects: DeleteMany on publishColl with the filter
\* (activePublishId does not exist, timestamp < before).  A publish
\* document has no "timestamp" field, and $lt does not match a missing
\* field: the filter selects no document.
OutdatedObjects(pubs, before) ==
    {p \in pubs : /\ TRUE     \* "activePublishId": {$exists: false}
                  /\ FALSE}   \* "timestamp": {$lt: before}

\* DeleteOutdatedObjects: publishColl.DeleteMany and res.DeletedCount.
DeleteOutdatedObjects(pubs, before) ==
    [pubs |-> pubs \ OutdatedObjects(pubs, before),
     deleted |-> Cardinality(OutdatedObjects(pubs, before))]

\* IterateReadyToDeleteIds: the ids the cursor yields, in _id order.
RECURSIVE SortIds(_)
SortIds(ids) ==
    IF ids = {} THEN << >>
    ELSE LET m == CHOOSE x \in ids : \A y \in ids : x = y \/ IdLess(x, y)
         IN  <<m>> \o SortIds(ids \ {m})

ReadyToDeleteIds(pubs) ==
    SortIds({p.id : p \in {q \in pubs : q.status = PublishStatusReadyToDelete}})

\* A faulty IterateReadyToDeleteIds: the error of the visitor does not end
\* the loop.
IterateReadyToDeleteIdsThrough(pubs, failAt) ==
    LET ids == ReadyToDeleteIds(pubs)
    IN  [visited |-> ids, err |-> IF failAt \in 1..Len(ids) THEN "do" ELSE ""]

\* IterateReadyToDeleteIds with a visitor that returns an error at its call
\* number failAt (0: at none): the ids the visitor was called with, in
\* order, and the error returned.
IterateReadyToDeleteIds(pubs, failAt) ==
    LET ids == ReadyToDeleteIds(pubs)
    IN  IF failAt \in 1..Len(ids)
        THEN [visited |-> SubSeq(ids, 1, failAt), err |-> "do"]
        ELSE [visited |-> ids, err |-> ""]

\* ------------------------------------------------------------- store.go
\* DeletePath: ListObjectsV2(Prefix = path), then DeleteObjects of the keys.
DeletePath(b, path) == {k \in b : k[1] # path}

\* ----------------------------------------------------------- service.go
\* strings.TrimPrefix(header.Name, "/"); a name is its sequence of parts.
TrimPrefix(name) == IF Len(name) > 0 /\ name[1] = "/" THEN Tail(name) ELSE name

\* fileName: publishId + "/" + the trimmed header name.
FileName(publishId, header) == <<publishId, TrimPrefix(header.name)>>

\* The headers tarReader.Next() yields: a directory, a file of some size,
\* and a header that does not parse (Next returns an error, not io.EOF).
TarDir(name) == [name |-> name, size |-> 0, dir |-> TRUE, corrupt |-> FALSE]
TarFile(name, size) == [name |-> name, size |-> size, dir |-> FALSE, corrupt |-> FALSE]
TarCorrupt == [name |-> << >>, size |-> 0, dir |-> FALSE, corrupt |-> TRUE]

\* The TAR bodies a client sends.
TarSite == << TarDir(<<"assets">>), TarFile(<<"/", "index.html">>, 8) >>
TarOver == << TarFile(<<"index.html">>, defaultLimit + 1) >>
Tars == {TarSite, TarOver}
\* Bodies at the limit, crossing it with the second of three files, and
\* broken after the first file.
TarAtLimit == << TarFile(<<"index.html">>, defaultLimit) >>
TarCrossing == << TarFile(<<"index.html">>, defaultLimit), TarFile(<<"a.css">>, 1),
                 TarFile(<<"b.css">>, 1) >>
TarBroken == << TarFile(<<"index.html">>, 8), TarCorrupt >>
LimitTars == {TarAtLimit, TarCrossing, TarBroken}

\* uploadTar's loop: the position of the next header that is no directory,
\* Len(tar) + 1 at io.EOF.
RECURSIVE NextFile(_, _)
NextFile(tar, pos) ==
    IF pos > Len(tar) THEN pos
    ELSE IF tar[pos].corrupt THEN pos
    ELSE IF tar[pos].dir THEN NextFile(tar, pos + 1) ELSE pos

\* A faulty limit check: a total that reaches the limit is refused.
OverLimitOrEqual(size, limit) == size >= limit

\* if size > limit
OverLimit(size, limit) == size > limit


\* ------------------------------------------------------------ the state
IdleTx == [op |-> ""]
IdleUpload == [pc |-> "idle"]
\* An upload that returns the error err after the deferred DeletePath.
FailedUpload(publishId, err) == [pc |-> "failed", publishId |-> publishId, err |-> err]
\* An upload whose uploadTar has returned size: FinalizePublish is next.
ReadUpload(up, size) ==
    [pc |-> "finalize", publishId |-> up.publishId, size |-> size,
     publish |-> up.publish, object |-> up.object]
\* uploadTar after tarReader.Next(): at the file of position pos with size
\* bytes stored so far, at io.EOF, or at a header that does not parse.
NextHeader(up, pos, size) ==
    IF pos > Len(up.tar) THEN ReadUpload(up, size)
    ELSE IF up.tar[pos].corrupt THEN FailedUpload(up.publishId, "tar error")
    ELSE [up EXCEPT !.pos = pos, !.size = size]
IdleGc == [pc |-> "idle", cursor |-> << >>]

\* ------------------------------------------------------------ gateway.go
\* The request handlers that serve pages from one redis, and the renderer
\* build of the gateway process of each (g.renderVersion, read from the
\* build info at start): 1 and 3 are goroutines of one process, 2 runs in a
\* process of another build.  A gateway keeps nothing of a page in memory.
Gateways == {1, 2, 3}
renderVersion(g) == IF g = 2 THEN "r2" ELSE "r1"

\* A Go string is a sequence of bytes.  The bytes of the identities and
\* uris the requests name, and the name of such bytes.
Text == {"a1", "a2", "u1", "u2"}
Bytes(str) ==
    CASE str = "a1" -> <<97, 49>>
      [] str = "a2" -> <<97, 50>>
      [] str = "u1" -> <<117, 49>>
      [] str = "u2" -> <<117, 50>>
TextOf(bytes) == CHOOSE str \in Text : Bytes(str) = bytes

\* strings.Index(s, substr): the index, from 0, of the first instance of
\* substr in s, -1 when there is none.
Index(s, substr) ==
    LET at == {i \in 0..(Len(s) - Len(substr)) :
                  SubSeq(s, i + 1, i + Len(substr)) = substr}
    IN  IF at = {} THEN -1 ELSE CHOOSE i \in at : \A j \in at : i <= j

\* var cacheIdSep = string([]byte{0})
cacheIdSep == <<0>>

\* A faulty newCacheId: the elements are joined by "/".
newCacheIdBySlash(identity, uri, withName) ==
    identity \o <<47>> \o uri \o <<47>> \o (IF withName THEN <<49>> ELSE <<48>>)

\* newCacheId: identity, uri and "1" or "0", joined by cacheIdSep.
newCacheId(identity, uri, withName) ==
    identity \o cacheIdSep \o uri \o cacheIdSep \o (IF withName THEN <<49>> ELSE <<48>>)

\* cacheId.getElement(idx), in round i of its loop with prevIdx: the
\* element from prevIdx to the next separator when i + 1 = idx (to the end
\* of the key when there is no separator), "" when the key ends before.
RECURSIVE getElementFrom(_, _, _, _)
getElementFrom(c, idx, i, prevIdx) ==
    IF i >= idx THEN << >>
    ELSE LET curIdx == Index(SubSeq(c, prevIdx + 1, Len(c)), cacheIdSep)
         IN  IF curIdx = -1
             THEN IF i + 1 = idx THEN SubSeq(c, prevIdx + 1, Len(c)) ELSE << >>
             ELSE IF i + 1 = idx THEN SubSeq(c, prevIdx + 1, curIdx + prevIdx)
             ELSE getElementFrom(c, idx, i + 1, prevIdx + curIdx + 1)

getElement(c, idx) == getElementFrom(c, idx, 0, 0)

\* cacheId.Identity, cacheId.Uri, cacheId.WithName
Identity(c) == getElement(c, 1)
Uri(c) == getElement(c, 2)
WithName(c) == getElement(c, 3) = <<49>>
\* The three redis keys of a cached page: string(key) + suffix.
RedisKey(id, suffix) == <<id, suffix>>
RedisKeys ==
    {RedisKey(newCacheId(Bytes(i), Bytes(u), n), x) :
        i \in Identities, u \in Uris, n \in BOOLEAN, x \in {":rver", ":notfound", ":body"}}

\* snappy.Encode and snappy.Decode of a body.
snappyEncode(body) == <<"snappy", body>>
snappyDecode(data) == data[2]

\* The bytes renderer.Render produces: a function of the renderer build and
\* of the config (the publish files path ends in the hex of activePublishId,
\* the analytics code is chosen by withName).
Render(version, activePublishId, withName) == <<version, activePublishId, withName>>
\* The empty Body of the page object of a page that was not found.
EmptyBody == << >>

\* pageObject
PageObject(body, isNotFound, renderVer) ==
    [Body |-> body, IsNotFound |-> isNotFound, RenderVer |-> renderVer]
NoPage == PageObject(EmptyBody, FALSE, "")

\* publishService.ResolveUriWithIdentity: the repository's ResolveUri of
\* the given identity.
ResolveUriWithIdentity(objs, pubs, identity, uri) == ResolveUri(objs, pubs, identity, uri)

\* What a page shows: the active publish of the Object the uri resolves to,
\* NilId for a page that is not found.
Shown(objs, pubs, id) ==
    LET pub == ResolveUriWithIdentity(objs, pubs, TextOf(Identity(id)), TextOf(Uri(id)))
    IN  IF pub.err = "ErrNotFound" THEN NilId ELSE pub.object.activePublishId

\* A page request of a gateway: the cache id, the results of the commands
\* of the running pipeline, the page object; as history whether every
\* invalidation fired before its start had completed, and what the page has
\* shown since its start.
IdleRequest ==
    [pc |-> "idle", id |-> << >>, results |-> << >>, page |-> NoPage,
     settled |-> FALSE, seen |-> {}]

\* No gateway component: the publish service has no invalidation callback.
\* cache maps a redis key to the set of its value, empty for redis.Nil.
NoGateway ==
    [callback |-> FALSE, invalidate |-> {},
     cache |-> [k \in RedisKeys |-> {}],
     reqs |-> [g \in Gateways |-> IdleRequest]]

\* gateway.Run: g.publish.SetInvalidateCacheCallback(g.invalidateCache).
Run == [NoGateway EXCEPT !.callback = TRUE]

\* A faulty publish service: it never calls the callback.
InvalidateCacheCallbackDropped(g, identity, uri) == g

\* The publish service calls the invalidation callback for (identity, uri)
\* after the commit: the call is pending from the commit on.
InvalidateCacheCallback(g, identity, uri) ==
    IF ~g.callback THEN g ELSE [g EXCEPT !.invalidate = @ \cup {<<identity, uri>>}]

\* History: the running page requests see what their pages show after a
\* commit.
Committed(g, objs, pubs) ==
    [g EXCEPT !.reqs = [r \in Gateways |->
        IF @[r].pc = "idle" THEN @[r]
        ELSE [@[r] EXCEPT !.seen = @ \cup {Shown(objs, pubs, g.reqs[r].id)}]]]

\* cacheGet after its pipeline: an error when a command returned redis.Nil,
\* else the page object of the three values.
CacheMiss(results) == \E n \in 1..3 : results[n] = {}
CachedPage(results) ==
    LET val(n) == CHOOSE v \in results[n] : TRUE
    IN  PageObject(snappyDecode(val(3)), val(2) = "1", val(1))

\* A faulty isCacheMissed: the render version is compared for a page that
\* is not found as well.
IsCacheMissedByVersion(g, results) ==
    \/ CacheMiss(results)
    \/ CachedPage(results).RenderVer # renderVersion(g)

\* handlePage: isCacheMissed, on the results of cacheGet.
IsCacheMissed(g, results) ==
    \/ CacheMiss(results)
    \/ /\ ~CachedPage(results).IsNotFound
       /\ CachedPage(results).RenderVer # renderVersion(g)

\* The response handlePage writes: 404 for a page that is not found, else
\* 200 and the body.
Response(g, req, page) ==
    [op |-> "handlePage", err |-> "", gateway |-> g, id |-> req.id,
     status |-> IF page.IsNotFound THEN 404 ELSE 200, body |-> page.Body,
     settled |-> req.settled, seen |-> req.seen]

\* The response of handlePage when renderPage returned an error:
\* http.Error(w, "Internal server error", 500).
ServerError(g, req) ==
    [op |-> "handlePage", err |-> "Internal server error", gateway |-> g, id |-> req.id,
     status |-> 500, body |-> EmptyBody, settled |-> req.settled, seen |-> req.seen]

\* The call that returned in the last step and its error ("" for none).
Ret(op, err) == [op |-> op, err |-> err]
NoCall == Ret("", "")

InitOf(n, gateways) ==
    /\ budget = n
    /\ objectsColl = {}
    /\ publishColl = {}
    /\ blobs = {}
    /\ now = 0
    /\ nextId = 0
    /\ txs = [s \in TxSlots |-> IdleTx]
    /\ uploads = [u \in UploadSlots |-> IdleUpload]
    /\ gc = IdleGc
    /\ last = NoCall
    /\ hist = [ok |-> {}, twice |-> {}, unpub |-> {}]
    /\ gw = gateways

\* The publish server without a gateway component.
InitWith(n) == InitOf(n, NoGateway)

Init == InitWith(FewPublishes)

\* Identities, ids, uris and versions are opaque to the server: while it
\* stores none and serves no request, the next request names the first of
\* each set (any other run is this one with the names exchanged).
Blank ==
    /\ objectsColl = {} /\ publishColl = {}
    /\ \A s \in TxSlots : txs[s].op = ""
    /\ \A u \in UploadSlots : uploads[u].pc = "idle"
FirstNames(identity, spaceId, objectId, uri, version) ==
    /\ identity = "a1" /\ spaceId = "s1" /\ objectId = "o1"
    /\ uri = "u1" /\ version = "v1"

\* A new request takes the first free slot.
FirstFreeTx(s) == txs[s].op = "" /\ \A r \in TxSlots : r < s => txs[r].op # ""
FirstFreeUpload(u) ==
    uploads[u].pc = "idle" /\ \A r \in UploadSlots : r < u => uploads[r].pc # "idle"

\* The written documents of a session, which is all a commit needs of it.
\* prevUri is the uri the call returns when the transaction commits.
Pending(op, object, version, st, id, active, prevUri) ==
    [op |-> op, object |-> object, version |-> version, w |-> st.w,
     objs |-> {o \in st.objs : ObjKey(o.id) \in st.w},
     pubs |-> {p \in st.pubs : PubKey(p.id) \in st.w},
     dirty |-> {}, id |-> id, active |-> active, prevUri |-> prevUri]

\* ------------------------------------------------- Publish (ObjectCreate)
\* publishService.Publish -> publishRepo.ObjectCreate: the transaction
\* starts, its body runs on the snapshot; an error of the body aborts it.
\* createPublish draws the next id and upload key while the run has some.
Publish(s, identity, spaceId, objectId, uri, version) ==
    /\ FirstFreeTx(s)
    /\ Blank => FirstNames(identity, spaceId, objectId, uri, version)
    /\ LET object == Request(identity, spaceId, objectId, uri)
           found == FindByObject(objectsColl, object)
       IN  \E existing \in (IF found = {} THEN {NoObject} ELSE found) :
             LET id == NewObjectID(now, nextId + 1)
                 s0 == Session(objectsColl, publishColl)
                 body == ObjectCreateBody(s0, object, version, existing, now, id,
                                          NewUploadKey(nextId + 1))
                 res == Tx(s0, body)
             IN  IF body.err # ""
                 THEN /\ objectsColl' = ApplyObjs(objectsColl, res)
                      /\ publishColl' = ApplyPubs(publishColl, res)
                      /\ txs' = Touch(txs, res.w)
                      /\ last' = Ret("Publish", body.err)
                      /\ UNCHANGED <<nextId, hist>>
                 ELSE /\ nextId < budget
                      /\ txs' = [txs EXCEPT ![s] = Pending("Publish", object, version, res, id,
                                                          existing.activePublishId,
                                                          PrevUri(object, existing))]
                      /\ nextId' = nextId + 1
                      /\ last' = NoCall
                      /\ UNCHANGED <<objectsColl, publishColl, hist>>
    /\ UNCHANGED <<blobs, now, uploads, gc, budget, gw>>

\* CommitTransaction of a transaction: a write conflict when one of its
\* documents was written since it started.
Commit(s, op) ==
    /\ LET t == txs[s]
       IN  IF t.dirty \cap t.w # {}
           THEN /\ last' = Ret(op, "write conflict")
                /\ txs' = [txs EXCEPT ![s] = IdleTx]
                /\ UNCHANGED <<objectsColl, publishColl, hist, gw>>
           ELSE /\ objectsColl' = ApplyObjs(objectsColl, t)
                /\ publishColl' = ApplyPubs(publishColl, t)
                /\ txs' = [Touch(txs, t.w) EXCEPT ![s] = IdleTx]
                /\ last' = Ret(op, "")
                /\ hist' = IF op = "UnPublish"
                           THEN [hist EXCEPT !.unpub =
                                     @ \cup ({t.active} \cap {p.id : p \in publishColl})]
                           ELSE hist
                /\ gw' = Committed(IF t.prevUri = "" THEN gw
                                   ELSE InvalidateCacheCallback(gw, t.object.identity,
                                                                t.prevUri),
                                   objectsColl', publishColl')
    /\ UNCHANGED <<blobs, now, nextId, uploads, gc, budget>>

PublishCommit(s) == txs[s].op = "Publish" /\ Commit(s, "Publish")

\* ----------------------------------------------- UnPublish (ObjectDelete)
UnPublish(s, identity, spaceId, objectId) ==
    /\ FirstFreeTx(s)
    /\ LET object == Request(identity, spaceId, objectId, "")
           found == FindByObject(objectsColl, object)
       IN  \E existing \in (IF found = {} THEN {NoObject} ELSE found) :
             LET s0 == Session(objectsColl, publishColl)
                 body == ObjectDeleteBody(s0, existing)
                 res == Tx(s0, body)
                 req == [object EXCEPT !.uri = existing.uri]
             IN  IF body.err # ""
                 THEN /\ objectsColl' = ApplyObjs(objectsColl, res)
                      /\ publishColl' = ApplyPubs(publishColl, res)
                      /\ txs' = Touch(txs, res.w)
                      /\ last' = Ret("UnPublish", body.err)
                 ELSE /\ txs' = [txs EXCEPT ![s] = Pending("UnPublish", req, "", res, NilId,
                                                          existing.activePublishId,
                                                          existing.uri)]
                      /\ last' = NoCall
                      /\ UNCHANGED <<objectsColl, publishColl>>
    /\ UNCHANGED <<blobs, now, nextId, uploads, gc, hist, budget, gw>>

UnPublishCommit(s) == txs[s].op = "UnPublish" /\ Commit(s, "UnPublish")


\* ------------------------------------------------------------- UploadTar
\* The publishId path value: hex of an issued id, or no hex at all.
\* primitive.ObjectIDFromHex fails on the latter.
BadHex == [hex |-> FALSE, id |-> NilId]
HexOf(id) == [hex |-> TRUE, id |-> id]
\* The upload keys a client presents with a path value: the key issued
\* with that id, and the empty one.
KeysOf(publishId) ==
    IF publishId.hex THEN {NewUploadKey(publishId.id[2]), EmptyKey} ELSE {EmptyKey}

\* UploadTar, up to publishColl.FindOne of GetPublish.  The body of the
\* request is a reader: nothing of it is read before uploadTar.
UploadTar(u, publishId, uploadKey) ==
    /\ FirstFreeUpload(u)
    /\ IF ~publishId.hex
       THEN /\ last' = Ret("UploadTar", "invalid hex")
            /\ UNCHANGED uploads
       ELSE IF ~HasPublish(publishColl, publishId.id)
       THEN /\ last' = Ret("UploadTar", "mongo.ErrNoDocuments")
            /\ UNCHANGED uploads
       ELSE /\ uploads' = [uploads EXCEPT ![u] =
                 [pc |-> "getObject", publishId |-> publishId.id, uploadKey |-> uploadKey,
                  publish |-> ThePublish(publishColl, publishId.id)]]
            /\ last' = NoCall
    /\ UNCHANGED <<objectsColl, publishColl, blobs, now, nextId, txs, gc, hist, budget, gw>>

\* A faulty UploadTar: the status of the publish is not looked at.
UploadChecksAnyStatus(publish, hasObject, uploadKey) ==
    IF ~hasObject THEN "mongo.ErrNoDocuments"
    ELSE IF publish.uploadKey # uploadKey THEN "invalid upload key"
    ELSE ""

\* The error UploadTar returns on what GetPublish read: the error of its
\* second FindOne, the upload key, the status.
UploadChecks(publish, hasObject, uploadKey) ==
    IF ~hasObject THEN "mongo.ErrNoDocuments"
    ELSE IF publish.uploadKey # uploadKey THEN "invalid upload key"
    ELSE IF publish.status # PublishStatusCreated THEN "publish is not in created state"
    ELSE ""

\* objectsColl.FindOne of GetPublish by pub.ObjectId, then the checks of
\* the upload key and of the status; the deferred DeletePath is registered
\* only after them.  tar is the body uploadTar is going to read.
UploadGetObject(u, tar) ==
    /\ uploads[u].pc = "getObject"
    /\ LET up == uploads[u]
           err == UploadChecks(up.publish, HasObject(objectsColl, up.publish.objectId),
                               up.uploadKey)
           first == NextFile(tar, 1)
       IN  IF err # ""
           THEN /\ uploads' = [uploads EXCEPT ![u] = IdleUpload]
                /\ last' = Ret("UploadTar", err)
           ELSE /\ uploads' = [uploads EXCEPT ![u] =
                     LET read == [pc |-> "put", publishId |-> up.publishId, tar |-> tar,
                                  pos |-> first, size |-> 0, publish |-> up.publish,
                                  object |-> TheObject(objectsColl, up.publish.objectId)]
                     IN  NextHeader(read, first, 0)]
                /\ last' = NoCall
    /\ UNCHANGED <<objectsColl, publishColl, blobs, now, nextId, txs, gc, hist, budget, gw>>

\* The errors of a call that takes the request's context: of the backend,
\* and of the context when the client has gone.
StoreErrors == {"store error", "context canceled"}
DbErrors == {"db error", "context canceled"}

\* The name directory, nnClient.GetNameByAnyId: identity a1 has registered
\* a name, no other identity has.
GetNameByAnyId(identity) ==
    [Found |-> identity = "a1", Name |-> IF identity = "a1" THEN "n1.any" ELSE ""]

\* nameService.ResolveIdentity: the name, ocache.ErrNotExists for none.
ResolveIdentity(identity) ==
    LET resp == GetNameByAnyId(identity)
    IN  IF ~resp.Found THEN [name |-> "", err |-> "ErrNotExists"]
        ELSE [name |-> resp.Name, err |-> ""]

\* The limit UploadTar passes to uploadTar: defaultLimit, for every object.
UploadLimit(object) == defaultLimit

\* One round of uploadTar's loop: store.Put of the entry at pos (ok: the
\* store took it), the size check, and tarReader.Next up to the next file.
UploadPut(u, ok) ==
    /\ uploads[u].pc = "put"
    /\ LET up == uploads[u]
           header == up.tar[up.pos]
           size == up.size + header.size
           next == NextFile(up.tar, up.pos + 1)
       IN  IF ~ok
           THEN /\ \E e \in StoreErrors :
                     uploads' = [uploads EXCEPT ![u] = FailedUpload(up.publishId, e)]
                /\ UNCHANGED blobs
           ELSE /\ blobs' = blobs \cup {FileName(up.publishId, header)}
                /\ uploads' = [uploads EXCEPT ![u] =
                     IF OverLimit(size, UploadLimit(up.object))
                     THEN FailedUpload(up.publishId, "upload limit exceeded")
                     ELSE NextHeader(up, next, size)]
    /\ last' = NoCall
    /\ UNCHANGED <<objectsColl, publishColl, now, nextId, txs, gc, hist, budget, gw>>

\* The ObjectWithPublish UploadTar passes to FinalizePublish.
Finalized(up) ==
    [object |-> up.object,
     publish |-> [up.publish EXCEPT !.size = up.size, !.status = PublishStatusPublished,
                                    !.uploadKey = EmptyKey]]

\* FinalizePublish in its transaction, and UploadTar's return on success.
UploadFinalize(u, failAt) ==
    /\ uploads[u].pc = "finalize"
    /\ LET up == uploads[u]
           s0 == Session(objectsColl, publishColl)
           body == FinalizePublishBody(s0, Finalized(up), failAt)
           res == Tx(s0, body)
       IN  /\ objectsColl' = ApplyObjs(objectsColl, res)
           /\ publishColl' = ApplyPubs(publishColl, res)
           /\ txs' = Touch(txs, res.w)
           /\ IF body.err # ""
              THEN /\ \E e \in DbErrors :
                        uploads' = [uploads EXCEPT ![u] = FailedUpload(up.publishId, e)]
                   /\ last' = NoCall
                   /\ gw' = Committed(gw, objectsColl', publishColl')
                   /\ UNCHANGED hist
              ELSE /\ uploads' = [uploads EXCEPT ![u] = IdleUpload]
                   /\ last' = Ret("UploadTar", "")
                   /\ hist' = [hist EXCEPT
                                 !.ok = @ \cup {up.publishId},
                                 !.twice = @ \cup ({up.publishId} \cap hist.ok)]
                   /\ gw' = Committed(InvalidateCacheCallback(gw, up.object.identity,
                                                              up.object.uri),
                                      objectsColl', publishColl')
    /\ UNCHANGED <<blobs, now, nextId, gc, budget>>

\* context.Context, as far as a call looks at it: canceled or not.  The
\* request's context is canceled when the request failed of it.
Background == [canceled |-> FALSE]
RequestContext(up) == [canceled |-> up.err = "context canceled"]

\* A faulty deferred cleanup: DeletePath on the context of the request.
DeferredContextOfRequest(up) == RequestContext(up)

\* The context of the deferred DeletePath: context.Background().
DeferredContext(up) == Background

\* The deferred cleanup of a failed upload: store.DeletePath (ok: the store
\* does it; DeleteObjects fails on a canceled context), its error dropped;
\* then the error is returned.
UploadFailed(u, ok) ==
    /\ uploads[u].pc = "failed"
    /\ blobs' = IF ok /\ ~DeferredContext(uploads[u]).canceled
                THEN DeletePath(blobs, uploads[u].publishId)
                ELSE blobs
    /\ uploads' = [uploads EXCEPT ![u] = IdleUpload]
    /\ last' = Ret("UploadTar", uploads[u].err)
    /\ UNCHANGED <<objectsColl, publishColl, now, nextId, txs, gc, hist, budget, gw>>

\* --------------------------------------------------------------- Cleanup
\* Cleanup, first statement: DeleteOutdatedPublishes(now - 1h) (ok: the
\* database does it); its error is logged and Cleanup goes on.
CleanupOutdated(ok) ==
    /\ gc.pc = "idle"
    /\ LET res == DeleteOutdatedPublishes(publishColl, now - Hour)
       IN  IF ok
           THEN /\ publishColl' = res.pubs
                /\ txs' = Touch(txs, {PubKey(p.id) : p \in publishColl \ res.pubs})
           ELSE UNCHANGED <<publishColl, txs>>
    /\ gc' = [gc EXCEPT !.pc = "objects"]
    /\ last' = NoCall
    /\ UNCHANGED <<objectsColl, blobs, now, nextId, uploads, hist, budget, gw>>

\* Cleanup, second statement: DeleteOutdatedObjects(now - 1h) (ok: the
\* database does it), its error logged as well; the clock has not moved
\* since the first.
CleanupOutdatedObjects(ok) ==
    /\ gc.pc = "objects"
    /\ LET res == DeleteOutdatedObjects(publishColl, now - Hour)
       IN  IF ok
           THEN /\ publishColl' = res.pubs
                /\ txs' = Touch(txs, {PubKey(p.id) : p \in publishColl \ res.pubs})
           ELSE UNCHANGED <<publishColl, txs>>
    /\ gc' = [gc EXCEPT !.pc = "find"]
    /\ last' = NoCall
    /\ UNCHANGED <<objectsColl, blobs, now, nextId, uploads, hist, budget, gw>>

\* IterateReadyToDeleteIds: publishColl.Find(status READY_TO_DELETE).
CleanupFind ==
    /\ gc.pc = "find"
    /\ LET ids == IterateReadyToDeleteIds(publishColl, 0).visited
       IN  gc' = [pc |-> IF ids = << >> THEN "idle" ELSE "path", cursor |-> ids]
    /\ last' = NoCall
    /\ UNCHANGED <<objectsColl, publishColl, blobs, now, nextId, txs, uploads, hist, budget, gw>>

\* A faulty visitor: DeletePublish follows DeletePath whatever it returned.
CleanupDeletePathUnchecked(ok) ==
    /\ gc.pc = "path"
    /\ blobs' = IF ok THEN DeletePath(blobs, Head(gc.cursor)) ELSE blobs
    /\ gc' = [gc EXCEPT !.pc = "publish"]
    /\ last' = NoCall
    /\ UNCHANGED <<objectsColl, publishColl, now, nextId, txs, uploads, hist, budget, gw>>

\* A faulty visitor: it returns the error of DeletePath, and the iteration
\* ends with it.
CleanupDeletePathAborting(ok) ==
    /\ gc.pc = "path"
    /\ IF ok
       THEN /\ blobs' = DeletePath(blobs, Head(gc.cursor))
            /\ gc' = [gc EXCEPT !.pc = "publish"]
       ELSE /\ gc' = IdleGc
            /\ UNCHANGED blobs
    /\ last' = NoCall
    /\ UNCHANGED <<objectsColl, publishColl, now, nextId, txs, uploads, hist, budget, gw>>

\* The visitor of Cleanup on the id under the cursor: store.DeletePath.  On
\* an error the id is skipped.
CleanupDeletePath(ok) ==
    /\ gc.pc = "path"
    /\ IF ok
       THEN /\ blobs' = DeletePath(blobs, Head(gc.cursor))
            /\ gc' = [gc EXCEPT !.pc = "publish"]
       ELSE /\ gc' = [pc |-> IF Len(gc.cursor) = 1 THEN "idle" ELSE "path",
                      cursor |-> Tail(gc.cursor)]
            /\ UNCHANGED blobs
    /\ last' = NoCall
    /\ UNCHANGED <<objectsColl, publishColl, now, nextId, txs, uploads, hist, budget, gw>>

\* The visitor, after DeletePath succeeded: repo.DeletePublish.
CleanupDeletePublish(ok) ==
    /\ gc.pc = "publish"
    /\ IF ok
       THEN /\ publishColl' = {p \in publishColl : p.id # Head(gc.cursor)}
            /\ txs' = Touch(txs, {PubKey(Head(gc.cursor))})
       ELSE UNCHANGED <<publishColl, txs>>
    /\ gc' = [pc |-> IF Len(gc.cursor) = 1 THEN "idle" ELSE "path",
              cursor |-> Tail(gc.cursor)]
    /\ last' = NoCall
    /\ UNCHANGED <<objectsColl, blobs, now, nextId, uploads, hist, budget, gw>>

\* Time passes.  The clock counts hours: no transaction (MongoDB ends one
\* after a minute) and no Cleanup tick is open across a step of it.
Tick ==
    /\ now < MaxClock
    /\ \A s \in TxSlots : txs[s].op = ""
    /\ gc.pc = "idle"
    /\ now' = now + 1
    /\ last' = NoCall
    /\ UNCHANGED <<objectsColl, publishColl, blobs, nextId, txs, uploads, gc, hist, budget, gw>>

\* --------------------------------------------------------------- gateway
\* handlePage up to the first command of cacheGet's pipeline, GetEx of
\* key + ":rver".  Pipelined sends the commands without MULTI: redis runs
\* them in order, and commands of other clients may run between them.
handlePage(g, identity, uri, withName) ==
    /\ gw.callback
    /\ gw.reqs[g].pc = "idle"
    /\ LET id == newCacheId(Bytes(identity), Bytes(uri), withName)
       IN  gw' = [gw EXCEPT !.reqs[g] =
                    [pc |-> "get", id |-> id,
                     results |-> <<gw.cache[RedisKey(id, ":rver")]>>, page |-> NoPage,
                     settled |-> gw.invalidate = {},
                     seen |-> {Shown(objectsColl, publishColl, id)}]]
    /\ last' = NoCall
    /\ UNCHANGED <<objectsColl, publishColl, blobs, now, nextId, txs, uploads, gc, hist,
                   budget>>

\* The next command of cacheGet's pipeline, GetEx of key + ":notfound" and
\* of key + ":body"; after the last, handlePage on a hit: the response.
cacheGet(g) ==
    /\ gw.reqs[g].pc = "get"
    /\ LET req == gw.reqs[g]
           suffix == IF Len(req.results) = 1 THEN ":notfound" ELSE ":body"
           results == Append(req.results, gw.cache[RedisKey(req.id, suffix)])
       IN  IF Len(results) < 3
           THEN /\ gw' = [gw EXCEPT !.reqs[g].results = results]
                /\ last' = NoCall
           ELSE IF IsCacheMissed(g, results)
           THEN /\ gw' = [gw EXCEPT !.reqs[g] = [req EXCEPT !.pc = "render",
                                                             !.results = << >>]]
                /\ last' = NoCall
           ELSE /\ gw' = [gw EXCEPT !.reqs[g] = IdleRequest]
                /\ last' = Response(g, req, CachedPage(results))
    /\ UNCHANGED <<objectsColl, publishColl, blobs, now, nextId, txs, uploads, gc, hist,
                   budget>>

\* What may fail in renderPage: the resolve, with an error that is not
\* ErrNotFound, and the renderer (NewRenderer or Render).
RenderErrors == {"", "resolve", "render"}

\* A faulty handlePage: after an error of renderPage it stores an empty
\* page.
renderPageCachingErrors(g, e) ==
    /\ gw.reqs[g].pc = "render"
    /\ LET req == gw.reqs[g]
           pub == ResolveUriWithIdentity(objectsColl, publishColl,
                                         TextOf(Identity(req.id)), TextOf(Uri(req.id)))
           found == pub.err = "" /\ pub.object.activePublishId # NilId
           page == IF ~found   \* ErrNotFound, or no activePublishId
                   THEN PageObject(EmptyBody, TRUE, "")
                   ELSE PageObject(Render(renderVersion(g), pub.object.activePublishId,
                                          WithName(req.id)),
                                   FALSE, renderVersion(g))
       IN  /\ e = "render" => found
           /\ IF e # "" \/ pub.err \notin {"", "ErrNotFound"}
              THEN /\ gw' = [gw EXCEPT !.reqs[g] = [req EXCEPT !.pc = "set", !.page = NoPage]]
                   /\ last' = ServerError(g, req)
              ELSE /\ gw' = [gw EXCEPT !.reqs[g] = [req EXCEPT !.pc = "set", !.page = page]]
                   /\ last' = Response(g, req, page)
    /\ UNCHANGED <<objectsColl, publishColl, blobs, now, nextId, txs, uploads, gc, hist,
                   budget>>

\* renderPage on a miss (e: what fails in it; the renderer runs only for a
\* page that is found), and the response of handlePage: 500 and return on
\* an error, else the page.
renderPage(g, e) ==
    /\ gw.reqs[g].pc = "render"
    /\ LET req == gw.reqs[g]
           pub == ResolveUriWithIdentity(objectsColl, publishColl,
                                         TextOf(Identity(req.id)), TextOf(Uri(req.id)))
           found == pub.err = "" /\ pub.object.activePublishId # NilId
           page == IF ~found   \* ErrNotFound, or no activePublishId
                   THEN PageObject(EmptyBody, TRUE, "")
                   ELSE PageObject(Render(renderVersion(g), pub.object.activePublishId,
                                          WithName(req.id)),
                                   FALSE, renderVersion(g))
       IN  /\ e = "render" => found
           /\ IF e # "" \/ pub.err \notin {"", "ErrNotFound"}
              THEN /\ gw' = [gw EXCEPT !.reqs[g] = IdleRequest]
                   /\ last' = ServerError(g, req)
              ELSE /\ gw' = [gw EXCEPT !.reqs[g] = [req EXCEPT !.pc = "set", !.page = page]]
                   /\ last' = Response(g, req, page)
    /\ UNCHANGED <<objectsColl, publishColl, blobs, now, nextId, txs, uploads, gc, hist,
                   budget>>

\* The next command of cacheSet's pipeline: SetEx of key + ":rver", of
\* key + ":notfound", of key + ":body".
cacheSet(g) ==
    /\ gw.reqs[g].pc = "set"
    /\ LET req == gw.reqs[g]
           n == Len(req.results) + 1
           suffix == <<":rver", ":notfound", ":body">>[n]
           value == <<req.page.RenderVer, IF req.page.IsNotFound THEN "1" ELSE "0",
                      snappyEncode(req.page.Body)>>[n]
       IN  gw' = [gw EXCEPT
                    !.cache[RedisKey(req.id, suffix)] = {value},
                    !.reqs[g] = IF n = 3 THEN IdleRequest
                                ELSE [req EXCEPT !.results = Append(@, {"OK"})]]
    /\ last' = NoCall
    /\ UNCHANGED <<objectsColl, publishColl, blobs, now, nextId, txs, uploads, gc, hist,
                   budget>>

\* A faulty invalidateCache: the keys of withName = true are left out.
invalidateCacheWithoutName(identity, uri, ok) ==
    /\ <<identity, uri>> \in gw.invalidate
    /\ LET ids == {newCacheId(Bytes(identity), Bytes(uri), FALSE)}
       IN  gw' = [gw EXCEPT
                    !.invalidate = @ \ {<<identity, uri>>},
                    !.cache = [k \in RedisKeys |->
                                 IF ok /\ k[1] \in ids THEN {} ELSE @[k]]]
    /\ last' = NoCall
    /\ UNCHANGED <<objectsColl, publishColl, blobs, now, nextId, txs, uploads, gc, hist,
                   budget>>

\* invalidateCache, called by the publish service: one Del of the six keys
\* (ok: redis does it); its error is logged, the function returns nothing.
invalidateCache(identity, uri, ok) ==
    /\ <<identity, uri>> \in gw.invalidate
    /\ LET ids == {newCacheId(Bytes(identity), Bytes(uri), TRUE),
                   newCacheId(Bytes(identity), Bytes(uri), FALSE)}
       IN  gw' = [gw EXCEPT
                    !.invalidate = @ \ {<<identity, uri>>},
                    !.cache = [k \in RedisKeys |->
                                 IF ok /\ k[1] \in ids THEN {} ELSE @[k]]]
    /\ last' = NoCall
    /\ UNCHANGED <<objectsColl, publishColl, blobs, now, nextId, txs, uploads, gc, hist,
                   budget>>

\* ------------------------------------------------------------------ Next
\* The ids NewObjectID() can hand out, and the publishId path values a
\* client presents: the hex of such an id, of an id never handed out, and
\* a string that is no hex.
PublishIds == {NewObjectID(t, n) : t \in 0..MaxClock, n \in 1..MaxPublishes}
PathValues ==
    {HexOf(id) : id \in PublishIds \cup {NewObjectIDFromTimestamp(0)}} \cup {BadHex}

\* The Publish and UnPublish requests of clients: T the transaction slots
\* that may be taken, O, R and V the object ids, uris and versions named.
Repository(T, O, R, V) ==
    \/ \E s \in T, i \in Identities, sp \in SpaceIds, o \in O, u \in R, v \in V :
          Publish(s, i, sp, o, u, v)
    \/ \E s \in T : PublishCommit(s)
    \/ \E s \in T, i \in Identities, sp \in SpaceIds, o \in O : UnPublish(s, i, sp, o)
    \/ \E s \in T : UnPublishCommit(s)

\* The upload requests: U the upload slots that may be taken, B the bodies
\* sent.
UploadsOf(U, B) ==
    \/ \E u \in U, publishId \in PathValues : \E uploadKey \in KeysOf(publishId) :
          UploadTar(u, publishId, uploadKey)
    \/ \E u \in U, tar \in B : UploadGetObject(u, tar)
    \/ \E u \in U, ok \in BOOLEAN : UploadPut(u, ok)
    \/ \E u \in U, failAt \in 0..3 : UploadFinalize(u, failAt)
    \/ \E u \in U, ok \in BOOLEAN : UploadFailed(u, ok)

Uploads(U) == UploadsOf(U, Tars)

RequestsOf(T, U, O, R, V) == Repository(T, O, R, V) \/ Uploads(U)

Requests(T, U) == RequestsOf(T, U, ObjectIds, Uris, Versions)

\* One step of the Cleanup goroutine.
Cleanup ==
    \/ \E ok \in BOOLEAN : CleanupOutdated(ok)
    \/ \E ok \in BOOLEAN : CleanupOutdatedObjects(ok)
    \/ CleanupFind
    \/ \E ok \in BOOLEAN : CleanupDeletePath(ok)
    \/ \E ok \in BOOLEAN : CleanupDeletePublish(ok)

\* One client at a time, the Cleanup goroutine and the clock.
Next == Requests({1}, {1}) \/ Cleanup \/ Tick

Spec == Init /\ [][Next]_vars

\* Two repository transactions at a time.
TxNext == Repository(TxSlots, ObjectIds, Uris, Versions)

TxSpec == InitWith(MaxPublishes) /\ [][TxNext]_vars

\* Two uploads at a time, of the publishes of one inner object.
UploadNext == RequestsOf({1}, UploadSlots, {"o1"}, Uris, {"v1"})

UploadSpec == Init /\ [][UploadNext]_vars

\* One inner object published again and again, under either uri.
CutoverNext == RequestsOf({1}, {1}, {"o1"}, Uris, {"v1"})

CutoverSpec == InitWith(MaxPublishes) /\ [][CutoverNext]_vars

\* One Publish of one inner object, two uploads at a time and the Cleanup
\* goroutine.  Every request that has started runs on, the ticker of
\* Cleanup goes on firing, and DeletePath and DeletePublish do not fail
\* for ever on an id the cursor comes to again and again.
FairIds == {NewObjectID(0, 1)}

FairNext == RequestsOf({1}, UploadSlots, {"o1"}, {"u1"}, {"v1"}) \/ Cleanup

Fairness ==
    /\ \A s \in TxSlots : WF_vars(PublishCommit(s)) /\ WF_vars(UnPublishCommit(s))
    /\ \A u \in UploadSlots :
         /\ WF_vars(\E tar \in Tars : UploadGetObject(u, tar))
         /\ WF_vars(\E ok \in BOOLEAN : UploadPut(u, ok))
         /\ WF_vars(\E failAt \in 0..3 : UploadFinalize(u, failAt))
         /\ WF_vars(\E ok \in BOOLEAN : UploadFailed(u, ok))
    /\ WF_vars(Cleanup)
    /\ \A id \in FairIds :
         /\ SF_vars(CleanupDeletePath(TRUE) /\ Head(gc.cursor) = id)
         /\ SF_vars(CleanupDeletePublish(TRUE) /\ Head(gc.cursor) = id)

FairSpec == InitWith(1) /\ [][FairNext]_vars /\ Fairness

\* One inner object published under either uri and version, with its uploads.
MoveNext == RequestsOf({1}, {1}, {"o1"}, Uris, Versions)

MoveSpec == Init /\ [][MoveNext]_vars

\* One inner object under one uri with its uploads, the Cleanup goroutine
\* and the clock.
GcNext == RequestsOf({1}, {1}, {"o1"}, {"u1"}, {"v1"}) \/ Cleanup \/ Tick

GcSpec == InitWith(1) /\ [][GcNext]_vars

\* One inner object published, uploaded and unpublished under one uri, and
\* the Cleanup goroutine: several publishes wait for one tick.
SweepNext ==
    \/ Repository({1}, {"o1"}, {"u1"}, {"v1"})
    \/ UploadsOf({1}, {TarAtLimit})
    \/ Cleanup

SweepSpec == InitWith(FewPublishes) /\ [][SweepNext]_vars

\* Uploads of bodies around the size limit and of a broken body to the
\* publishes of one inner object.
LimitNext == Repository({1}, {"o1"}, {"u1"}, {"v1"}) \/ UploadsOf({1}, LimitTars)

LimitSpec == Init /\ [][LimitNext]_vars

\* The page requests of the gateways G with the withName values W, and the
\* invalidations the publish service has fired.
Invalidations ==
    \E i \in Identities, u \in Uris, ok \in BOOLEAN : invalidateCache(i, u, ok)

\* The page requests of the gateways G for the uris R with the withName
\* values W, and the invalidations.
GatewayOf(G, R, W) ==
    \/ \E g \in G, i \in Identities, u \in R, w \in W : handlePage(g, i, u, w)
    \/ \E g \in G : cacheGet(g)
    \/ \E g \in G, e \in RenderErrors : renderPage(g, e)
    \/ \E g \in G : cacheSet(g)
    \/ Invalidations

Gateway(G, W) == GatewayOf(G, {"u1"}, W)

\* One publish of one inner object, and two gateways of different renderer
\* builds serving its page from the same redis.
GatewayNext ==
    \/ \E s \in {1}, i \in Identities, sp \in SpaceIds, o \in {"o1"}, u \in {"u1"}, v \in {"v1"} :
          Publish(s, i, sp, o, u, v)
    \/ \E s \in {1} : PublishCommit(s)
    \/ UploadsOf({1}, {TarAtLimit})
    \/ Gateway({1, 2}, {FALSE})

GatewaySpec == InitOf(1, Run) /\ [][GatewayNext]_vars

\* The publishes of one inner object under one uri, and one gateway serving
\* its page.
PageNext ==
    \/ Repository({1}, {"o1"}, {"u1"}, {"v1"})
    \/ UploadsOf({1}, {TarAtLimit})
    \/ Gateway({1}, {FALSE})

PageSpec == InitOf(FewPublishes, Run) /\ [][PageNext]_vars

\* One inner object published, moved and unpublished with its uploads, and
\* the invalidations of a gateway that serves no page.
CallbackNext ==
    \/ Repository({1}, {"o1"}, Uris, {"v1"})
    \/ UploadsOf({1}, {TarAtLimit})
    \/ Invalidations

CallbackSpec == InitOf(FewPublishes, Run) /\ [][CallbackNext]_vars

\* One publish of one inner object under one uri, and one gateway serving
\* the pages of both uris, with and without the name.
CacheNext ==
    \/ \E s \in {1}, i \in Identities, sp \in SpaceIds, o \in {"o1"}, u \in {"u1"}, v \in {"v1"} :
          Publish(s, i, sp, o, u, v)
    \/ \E s \in {1} : PublishCommit(s)
    \/ UploadsOf({1}, {TarAtLimit})
    \/ GatewayOf({1}, Uris, BOOLEAN)

CacheSpec == InitOf(1, Run) /\ [][CacheNext]_vars

\* One publish of one inner object, and two requests at a time in one
\* gateway process.
FlightNext ==
    \/ \E s \in {1}, i \in Identities, sp \in SpaceIds, o \in {"o1"}, u \in {"u1"}, v \in {"v1"} :
          Publish(s, i, sp, o, u, v)
    \/ \E s \in {1} : PublishCommit(s)
    \/ UploadsOf({1}, {TarAtLimit})
    \/ Gateway({1, 3}, {FALSE})

FlightSpec == InitOf(1, Run) /\ [][FlightNext]_vars

\* ---------------------------------------------------------------- claims
\* The step is the return of a Publish call, of an UnPublish call.
Returned(op) == last'.op = op
\* The step is UploadFinalize of slot u.
Finalizing(u) == uploads[u].pc = "finalize" /\ uploads'[u] # uploads[u]
FinalizeOk(u) == Finalizing(u) /\ uploads'[u] = IdleUpload

\* C1: every Object whose activePublishId is p has a stored Publish with id
\* p, and that Publish has status PUBLISHED or READY_TO_DELETE.
ActivePublishStored ==
    \A o \in objectsColl :
        o.activePublishId # NilId =>
            \E p \in publishColl :
                /\ p.id = o.activePublishId
                /\ p.status \in {PublishStatusPublished, PublishStatusReadyToDelete}

\* C2: for every identity and uri at most one Object has the derived id
\* identity/uri, and an Object's id is the one derived from its fields.
UniqueDerivedId ==
    /\ \A a \in objectsColl : a.id = DerivedId(a.identity, a.uri)
    /\ \A a, b \in objectsColl : a.id = b.id => a = b

\* Two inner objects are stored under their uris, the second just published.
TwoObjectsStored ==
    /\ Cardinality(objectsColl) = 2
    /\ last = Ret("Publish", "")

\* C3: for every identity and (spaceId, objectId) at most one Object is
\* stored, also when two ObjectCreate transactions run concurrently.
UniqueInnerObject ==
    \A a, b \in objectsColl :
        (a.identity = b.identity /\ a.spaceId = b.spaceId /\ a.objectId = b.objectId)
            => a = b

\* The uri is held by an Object of the identity for another inner object.
UriTaken(identity, spaceId, objectId, uri) ==
    \E x \in objectsColl :
        /\ x.id = DerivedId(identity, uri)
        /\ (x.spaceId # spaceId \/ x.objectId # objectId)

\* C4: ObjectCreate with a uri that an Object of the same identity holds for
\* a different inner object returns URI_NOT_UNIQUE and leaves the stored
\* Objects and Publishes as they were.
UriNotUniqueUnchanged ==
    [][(last'.op = "Publish" \/ nextId' # nextId) =>
          \A s \in TxSlots, i \in Identities, sp \in SpaceIds, o \in ObjectIds,
             u \in Uris, v \in Versions :
               (UriTaken(i, sp, o, u) /\ Publish(s, i, sp, o, u, v))
                   => /\ last' = Ret("Publish", "ErrUriNotUnique")
                      /\ objectsColl' = objectsColl
                      /\ publishColl' = publishColl]_vars

\* A Publish was just refused for its uri while both inner objects are known.
UriRefused ==
    /\ last = Ret("Publish", "ErrUriNotUnique")
    /\ \E a, b \in objectsColl : a.objectId # b.objectId

\* The upload of slot u finalizes the Publish of an Object that is stored
\* as the upload read it.
FinalizesStoredObject(u) ==
    /\ FinalizeOk(u)
    /\ uploads[u].object \in objectsColl

\* What ResolveUri and GetPublishStatus are to return for the upload up.
PublishedResult(up, objs, pubs) ==
    LET r == ResolveUri(objs, pubs, up.object.identity, up.object.uri)
    IN  /\ r.err = ""
        /\ r.publish.id = up.publishId
        /\ r.publish.status = PublishStatusPublished
        /\ r.publish.version = up.publish.version
        /\ r.publish.size = up.size
        /\ ObjectPublishStatus(objs, pubs, Request(up.object.identity, up.object.spaceId,
                                                   up.object.objectId, up.object.uri)) = {r}

\* C5: after a successful Publish and a successful upload with
\* FinalizePublish of the Publish it reserved, ResolveUri and
\* GetPublishStatus return that Publish: PUBLISHED, with the version given
\* to Publish and the size recorded at finalization.
ResolvesFinalized ==
    [][\A u \in UploadSlots :
          FinalizesStoredObject(u) => PublishedResult(uploads[u], objectsColl', publishColl')]_vars

\* The transaction that commits in this step is the UnPublish of slot s.
UnPublished(s) ==
    txs[s].op = "UnPublish" /\ txs'[s] = IdleTx /\ last' = Ret("UnPublish", "")

\* C6: after a successful UnPublish of an Object with uri u, ResolveUri(u)
\* returns NOT_FOUND, the Publish that was active has status
\* READY_TO_DELETE, and the uri resolves again only by a Publish.
UnPublishTombstones ==
    [][/\ \A s \in TxSlots :
            UnPublished(s) =>
                /\ ResolveUri(objectsColl', publishColl', txs[s].object.identity,
                              txs[s].object.uri) = NotFound
                /\ \A p \in publishColl' :
                       (p.id = txs[s].active /\ HasPublish(publishColl, p.id))
                           => p.status = PublishStatusReadyToDelete
       /\ \A i \in Identities, u \in Uris :
            (~HasObject(objectsColl, DerivedId(i, u)) /\ HasObject(objectsColl', DerivedId(i, u)))
                => Returned("Publish")]_vars

\* An UnPublish has just returned and its Publish is stored as READY_TO_DELETE.
UnPublishedStored ==
    /\ last = Ret("UnPublish", "")
    /\ \E p \in publishColl :
           p.id \in hist.unpub /\ p.status = PublishStatusReadyToDelete

\* The collections after the three writes of FinalizePublish for upload up.
FinalizedPublishes(up, pubs) ==
    {IF p.id = up.publishId
     THEN [p EXCEPT !.status = PublishStatusPublished, !.size = up.size]
     ELSE IF p.id = up.object.activePublishId
     THEN [p EXCEPT !.status = PublishStatusReadyToDelete]
     ELSE p : p \in pubs}
FinalizedObjects(up, objs) ==
    {IF o.id = up.object.id THEN [o EXCEPT !.activePublishId = up.publishId] ELSE o
     : o \in objs}

\* C8: FinalizePublish is all-or-nothing: its three writes are all applied,
\* or, when one fails, the stored Objects and Publishes are as before.
FinalizeAllOrNothing ==
    [][\A u \in UploadSlots :
          Finalizing(u) =>
              IF FinalizeOk(u)
              THEN /\ publishColl' = FinalizedPublishes(uploads[u], publishColl)
                   /\ objectsColl' = FinalizedObjects(uploads[u], objectsColl)
              ELSE /\ publishColl' = publishColl
                   /\ objectsColl' = objectsColl]_vars

\* A finalization has replaced an active Publish by the next one.
FinalizedOverPrevious ==
    /\ last = Ret("UploadTar", "")
    /\ \E o \in objectsColl, p, q \in publishColl :
           /\ o.activePublishId = p.id /\ p.status = PublishStatusPublished
           /\ q.objectId = p.objectId /\ q.status = PublishStatusReadyToDelete

\* C9: no Object's activePublishId refers to a stored Publish whose status
\* is not PUBLISHED, under any interleaving of uploads, Publish calls that
\* change the uri and UnPublish.
ActiveIsPublished ==
    \A o \in objectsColl, p \in publishColl :
        p.id = o.activePublishId => p.status = PublishStatusPublished

\* C10: for any (publishId, uploadKey) at most one UploadTar call returns
\* success.
AtMostOneSuccess == hist.twice = {}

\* C7: with Cleanup running fairly and DeletePath and DeletePublish
\* eventually succeeding, every Publish that was active when UnPublish
\* removed its Object is eventually absent from the publish collection with
\* no blob left under its prefix.
UnPublishedCollected ==
    \A id \in FairIds :
        (id \in hist.unpub)
            ~> (~HasPublish(publishColl, id) /\ \A k \in blobs : k[1] # id)

\* The step leaves the bucket and both collections as they were.
StoresUntouched ==
    /\ blobs' = blobs
    /\ objectsColl' = objectsColl
    /\ publishColl' = publishColl

\* The step is the return of UploadTar with an error.
UploadErrorReturned == last'.op = "UploadTar" /\ last'.err # ""

\* C11: UploadTar returns an error when the publishId is malformed or names
\* no stored Publish, when the presented uploadKey is not the stored one, or
\* when the status is not CREATED; it then writes and deletes no blob and
\* modifies no Object and no Publish.
UploadRejected ==
    [][(last'.op = "UploadTar" \/ uploads' # uploads) =>
          /\ \A u \in UploadSlots, publishId \in PathValues :
                \A uploadKey \in KeysOf(publishId) :
                   (/\ ~publishId.hex \/ ~HasPublish(publishColl, publishId.id)
                    /\ UploadTar(u, publishId, uploadKey))
                       => UploadErrorReturned /\ StoresUntouched
          /\ \A u \in UploadSlots, tar \in Tars :
                (/\ uploads[u].pc = "getObject"
                 /\ \/ uploads[u].publish.uploadKey # uploads[u].uploadKey
                    \/ uploads[u].publish.status # PublishStatusCreated
                 /\ UploadGetObject(u, tar))
                    => UploadErrorReturned /\ StoresUntouched]_vars

\* An upload to a Publish that is no longer CREATED was just refused, with
\* the blobs of an earlier upload in the bucket.
UploadRefused ==
    /\ last = Ret("UploadTar", "publish is not in created state")
    /\ blobs # {}

\* The running total of upload u once the entry under its reader is stored.
TotalWith(u) == uploads[u].size + uploads[u].tar[uploads[u].pos].size

\* The step is the return of upload u, failed for the size limit.
LimitReturn(u) ==
    /\ uploads[u].pc = "failed"
    /\ uploads[u].err = "upload limit exceeded"
    /\ uploads'[u] = IdleUpload

\* The entries of an upload are stored while its total is within the limit,
\* and the upload fails for its size exactly when the total exceeds it.
StoredWithinLimit(u) ==
    (uploads[u].pc = "put" /\ UploadPut(u, TRUE)) =>
        /\ uploads[u].size <= defaultLimit
        /\ (TotalWith(u) > defaultLimit)
              <=> (uploads'[u] = FailedUpload(uploads[u].publishId, "upload limit exceeded"))
        /\ objectsColl' = objectsColl
        /\ publishColl' = publishColl

Validated(u) == uploads[u].pc \in {"put", "finalize"}

DeletedIds(s) ==
    {o.id : o \in {x \in objectsColl : ObjKey(x.id) \in txs[s].w}} \ {o.id : o \in txs[s].objs}

\* The transaction that commits in this step is the Publish of slot s.
Published(s) ==
    txs[s].op = "Publish" /\ txs'[s] = IdleTx /\ last' = Ret("Publish", "")

\* The Object of upload u was moved to its uri after its active Publish was
\* made: that Publish names the Object by another derived id.
MovedSincePublished(u) ==
    \E p \in publishColl :
        p.id = uploads[u].object.activePublishId /\ p.objectId # uploads[u].object.id

\* ResolveUri of the uri of a derived id, for every uri there is.
ResolvesNotFound(objs, pubs, identity, id) ==
    \A r \in Uris :
        DerivedId(identity, r) = id => ResolveUri(objs, pubs, identity, r) = NotFound

\* C14: a Publish of a published inner object under a new uri moves the
\* Object (one transaction deletes it under the old derived id and inserts
\* it under the new one, no Object is added), and once the upload of the new
\* Publish has completed, ResolveUri of the old uri returns NOT_FOUND and
\* ResolveUri of the new uri returns the new Publish, PUBLISHED, with the
\* version given to that Publish call.
UriChangeResolves ==
    [][/\ \A s \in TxSlots :
            (Published(s) /\ DeletedIds(s) # {}) =>
                /\ Cardinality(objectsColl') = Cardinality(objectsColl)
                /\ \A id \in DeletedIds(s) :
                       /\ id # DerivedId(txs[s].object.identity, txs[s].object.uri)
                       /\ ResolvesNotFound(objectsColl', publishColl',
                                           txs[s].object.identity, id)
                       /\ MovedObject(TheObject(objectsColl, id), txs[s].object.uri)
                              \in objectsColl'
       /\ \A u \in UploadSlots :
            (FinalizesStoredObject(u) /\ MovedSincePublished(u)) =>
                LET up == uploads[u]
                    r == ResolveUri(objectsColl', publishColl', up.object.identity,
                                    up.object.uri)
                IN  /\ ResolvesNotFound(objectsColl', publishColl', up.object.identity,
                                        ThePublish(publishColl, up.object.activePublishId).objectId)
                    /\ r.err = ""
                    /\ r.publish.id = up.publishId
                    /\ r.publish.status = PublishStatusPublished
                    /\ r.publish.version = up.publish.version]_vars

\* The upload of the second Publish has completed: the Object is under the
\* second uri with the second version active, and the Publish made under
\* the first uri is READY_TO_DELETE.
UriChanged ==
    /\ last = Ret("UploadTar", "")
    /\ \E o \in objectsColl, p, q \in publishColl :
           /\ o.uri = "u2" /\ o.activePublishId = p.id
           /\ p.status = PublishStatusPublished /\ p.version = "v2"
           /\ q.objectId = DerivedId(o.identity, "u1")
           /\ q.status = PublishStatusReadyToDelete
    /\ Cardinality(objectsColl) = 1

SameObjectStored(s) ==
    \E o \in objectsColl :
        /\ o.id = DerivedId(txs[s].object.identity, txs[s].object.uri)
        /\ o.spaceId = txs[s].object.spaceId
        /\ o.objectId = txs[s].object.objectId

\* C16: a Publish for an inner object that is stored under the same uri
\* keeps the one Object as it is (derived id, activePublishId), inserts a
\* Publish in status CREATED with the version of the call, a new id and an
\* uploadKey no stored Publish has, and leaves the stored Publishes untouched.
RepublishAddsPublish ==
    [][\A s \in TxSlots :
          (Published(s) /\ SameObjectStored(s)) =>
              /\ objectsColl' = objectsColl
              /\ \E p \in publishColl' :
                     /\ p \notin publishColl
                     /\ publishColl' = publishColl \cup {p}
                     /\ ~HasPublish(publishColl, p.id)
                     /\ p.id = txs[s].id
                     /\ p.objectId = DerivedId(txs[s].object.identity, txs[s].object.uri)
                     /\ p.status = PublishStatusCreated
                     /\ p.version = txs[s].version
                     /\ p.uploadKey # EmptyKey
                     /\ \A q \in publishColl : q.uploadKey # p.uploadKey]_vars

\* Publish with the first version and then with the second has returned:
\* one Object, two Publishes in status CREATED.
Republished ==
    /\ last = Ret("Publish", "")
    /\ Cardinality(objectsColl) = 1
    /\ \E p, q \in publishColl :
           /\ p.version = "v1" /\ q.version = "v2"
           /\ p.objectId = q.objectId
           /\ p.status = PublishStatusCreated /\ q.status = PublishStatusCreated
           /\ \A o \in objectsColl : o.id = p.objectId /\ o.activePublishId = NilId

\* The step is DeleteOutdatedPublishes of a Cleanup tick, DeleteOutdatedObjects.
ReapsPublishes == CleanupOutdated(TRUE)
ReapsObjects == CleanupOutdatedObjects(TRUE)

\* The Publishes in status CREATED that were created before the time.
CreatedBefore(before) ==
    {p \in publishColl : p.status = PublishStatusCreated /\ p.id[1] < before}

\* C17: DeleteOutdatedPublishes(before) removes exactly the Publishes in
\* status CREATED whose id carries a creation time earlier than before and
\* returns their number; every other Publish and every Object is left; a
\* CREATED Publish goes at a Cleanup tick exactly when it is older than an
\* hour.
OutdatedPublishesReaped ==
    [][ReapsPublishes =>
          /\ publishColl' = publishColl \ CreatedBefore(now - Hour)
          /\ DeleteOutdatedPublishes(publishColl, now - Hour).deleted
                = Cardinality(CreatedBefore(now - Hour))
          /\ objectsColl' = objectsColl
          /\ \A p \in publishColl :
                 p.status = PublishStatusCreated
                     => (p \notin publishColl' <=> now - p.id[1] > Hour)]_vars

\* The one reservation of the run was never uploaded, and a Cleanup tick has
\* just removed its Publish; its Object is stored.
ReservationReaped ==
    /\ gc.pc = "objects"
    /\ nextId = 1
    /\ publishColl = {}
    /\ \E o \in objectsColl : o.activePublishId = NilId /\ now - o.timestamp > Hour

\* The Objects without activePublishId whose timestamp is before the time.
UnpublishedBefore(before) ==
    {o \in objectsColl : o.activePublishId = NilId /\ o.timestamp < before}

\* C18: DeleteOutdatedObjects(before) removes exactly the Objects that have
\* no activePublishId and a timestamp earlier than before, and leaves the
\* other Objects and all Publishes.
OutdatedObjectsReaped ==
    [][ReapsObjects =>
          /\ objectsColl' = objectsColl \ UnpublishedBefore(now - Hour)
          /\ publishColl' = publishColl]_vars

\* C19: every 200 response of handlePage carries a body rendered by the
\* renderer version of the gateway process that serves it, also when
\* gateways of different renderer versions read and write the same cache
\* keys concurrently.
ServedByOwnRenderer ==
    (last.op = "handlePage" /\ last.status = 200)
        => last.body[1] = renderVersion(last.gateway)

\* What a response shows: the publish its body was rendered from, NilId for
\* a 404.
Served(response) == IF response.status = 404 THEN NilId ELSE response.body[2]

\* C20: a page request that starts when every publishing mutation
\* committed so far has had its cache invalidation completed returns what
\* the page has shown at some time since the request started, never what it
\* showed before these mutations; also when another request was between
\* its render and its cache store while a mutation happened.
ServedAfterInvalidation ==
    (last.op = "handlePage" /\ last.status # 500 /\ last.settled)
        => Served(last) \in last.seen

\* C21: for one cache key at most one render is in flight at any time in a
\* gateway process: of the requests that miss on the same key only one is
\* in renderPage with the renderer to run (the page shows a publish).
OneRenderInFlight ==
    \A g, h \in Gateways :
        (/\ g # h
         /\ renderVersion(g) = renderVersion(h)
         /\ gw.reqs[g].pc = "render"
         /\ gw.reqs[h].pc = "render"
         /\ Shown(objectsColl, publishColl, gw.reqs[g].id) # NilId)
            => gw.reqs[g].id # gw.reqs[h].id

\* C22: the size limit of an upload is chosen by the identity of the
\* uploader: an identity that resolves to a name has a higher limit than
\* the default, so its upload is not refused for its size when its total
\* is one byte over the default limit.
NamedIdentityHasHigherLimit ==
    [][\A u \in UploadSlots :
          (/\ uploads[u].pc = "put"
           /\ ResolveIdentity(uploads[u].object.identity).err = ""
           /\ TotalWith(u) = defaultLimit + 1
           /\ UploadPut(u, TRUE))
              => uploads'[u] # FailedUpload(uploads[u].publishId, "upload limit exceeded")]_vars

\* C23: in a Cleanup tick the record of a READY_TO_DELETE Publish is removed
\* only by DeletePublish on the id under the cursor, and the visitor comes
\* to DeletePublish of an id only by a DeletePath of that id that emptied
\* its path; when DeletePath fails the visitor goes on to the next id and
\* the publish collection stays as it is; and the iteration of a tick
\* visits every READY_TO_DELETE id that is stored when it starts.
CursorIds(cursor) == {cursor[i] : i \in 1..Len(cursor)}

DeletePublishAfterDeletePath ==
    [][/\ \A p \in publishColl :
             (p.status = PublishStatusReadyToDelete
                /\ p.id \notin {q.id : q \in publishColl'})
                => /\ gc.pc = "publish"
                   /\ Head(gc.cursor) = p.id
       /\ (gc'.pc = "publish" /\ gc.pc # "publish")
             => /\ gc.pc = "path"
                /\ gc'.cursor = gc.cursor
                /\ blobs' = DeletePath(blobs, Head(gc.cursor))
       /\ (gc.pc = "path" /\ gc' # gc /\ gc'.pc # "publish")
             => /\ publishColl' = publishColl
                /\ blobs' = blobs
                /\ gc'.cursor = Tail(gc.cursor)
       /\ (gc.pc = "find" /\ gc' # gc)
             => CursorIds(gc'.cursor) =
                   {p.id : p \in {q \in publishColl :
                                     q.status = PublishStatusReadyToDelete}}]_vars

\* A Publish that was uploaded has been collected: its blobs and its record
\* are gone.
PublishCollected ==
    \E id \in hist.ok :
        /\ id \notin {p.id : p \in publishColl}
        /\ DeletePath(blobs, id) = blobs
        /\ gc.pc = "idle"

\* The rest of the iteration after the id under the cursor.
CursorAfter(cursor) ==
    [pc |-> IF Len(cursor) = 1 THEN "idle" ELSE "path", cursor |-> Tail(cursor)]

\* C24: a failure of DeletePath or of DeletePublish for one READY_TO_DELETE
\* id does not end the Cleanup tick, the iteration goes on with the ids
\* after it; and DeleteOutdatedObjects follows DeleteOutdatedPublishes and
\* the iteration follows DeleteOutdatedObjects, whether they failed or not.
CleanupGoesOn ==
    [][/\ (gc.pc = "idle" /\ gc' # gc) => gc'.pc = "objects"
       /\ (gc.pc = "objects" /\ gc' # gc) => gc'.pc = "find"
       /\ (gc.pc = "path" /\ gc' # gc)
             => \/ gc' = [gc EXCEPT !.pc = "publish"]
                \/ gc' = CursorAfter(gc.cursor)
       /\ (gc.pc = "publish" /\ gc' # gc) => gc' = CursorAfter(gc.cursor)
       /\ \A ok \in BOOLEAN :
             /\ CleanupOutdated(ok) => gc'.pc = "objects"
             /\ CleanupOutdatedObjects(ok) => gc'.pc = "find"
             /\ CleanupDeletePath(ok) => gc'.cursor \in {gc.cursor, Tail(gc.cursor)}
             /\ CleanupDeletePublish(ok) => gc'.cursor = Tail(gc.cursor)]_vars

\* The tick is at DeletePublish of the last id of its iteration, and a
\* Publish it came to before is still stored, READY_TO_DELETE, with its
\* blobs: the visitor failed on that one and went on.
FailureSkipped ==
    /\ gc.pc = "publish"
    /\ Len(gc.cursor) = 1
    /\ \E p \in publishColl :
          /\ p.status = PublishStatusReadyToDelete
          /\ IdLess(p.id, Head(gc.cursor))
          /\ DeletePath(blobs, p.id) # blobs

\* The ids of the stored Publishes.
StoredIds(pubs) == {p.id : p \in pubs}

\* C25: a step removes the record of a Publish only if the Publish is
\* READY_TO_DELETE, or CREATED and older than one hour, and after no step,
\* of Cleanup or of an upload in flight, is the activePublishId of an
\* Object the id of a Publish whose record has been removed.
GcSparesActive ==
    [][/\ \A p \in publishColl :
             p.id \notin StoredIds(publishColl')
                => \/ p.status = PublishStatusReadyToDelete
                   \/ p.status = PublishStatusCreated /\ now - p.id[1] > Hour
       /\ \A o \in objectsColl' :
             o.activePublishId # NilId
                => o.activePublishId \in StoredIds(publishColl')]_vars

\* C26: when an upload succeeds, the Publish that was the activePublishId
\* of the Object immediately before the commit has status READY_TO_DELETE
\* after it, also when uploads of two Publishes of the Object overlap.
SupersededReadyToDelete ==
    [][(last'.op = "UploadTar" /\ last'.err = "")
          => \A o \in objectsColl : \A n \in objectsColl' :
                 (/\ n.id = o.id
                  /\ o.activePublishId # NilId
                  /\ n.activePublishId # o.activePublishId)
                    => \A p \in publishColl' :
                           p.id = o.activePublishId
                              => p.status = PublishStatusReadyToDelete]_vars

\* C27: after a successful upload the stored Publish has an empty
\* uploadKey, status PUBLISHED and the size of the upload.
UploadKeyCleared ==
    [][\A u \in UploadSlots :
          (/\ uploads[u].pc = "finalize"
           /\ uploads'[u] = IdleUpload
           /\ last' = Ret("UploadTar", ""))
             => \A p \in publishColl' :
                    p.id = uploads[u].publishId
                       => /\ p.uploadKey = EmptyKey
                          /\ p.status = PublishStatusPublished
                          /\ p.size = uploads[u].size]_vars

Entry(cache, id) ==
    <<cache[RedisKey(id, ":rver")], cache[RedisKey(id, ":notfound")],
      cache[RedisKey(id, ":body")]>>

\* C29: invalidateCache(identity, uri) leaves nothing of the entries of
\* (identity, uri, withName = true) and (identity, uri, withName = false),
\* so that a read of either in the state it leaves is a miss, and leaves
\* every key of every other (identity, uri) as it is.
InvalidateRemovesBoth ==
    [][\A i \in Identities, u \in Uris :
          invalidateCache(i, u, TRUE)
             => /\ \A w \in BOOLEAN :
                      /\ Entry(gw'.cache, newCacheId(Bytes(i), Bytes(u), w)) = <<{}, {}, {}>>
                      /\ \A g \in Gateways :
                            IsCacheMissed(g, Entry(gw'.cache, newCacheId(Bytes(i), Bytes(u), w)))
                /\ \A k \in RedisKeys :
                      (Identity(k[1]) # Bytes(i) \/ Uri(k[1]) # Bytes(u))
                      => gw'.cache[k] = gw.cache[k]]_vars

\* A request has read the ":rver" of a cached page of u1, with the name, and
\* the invalidation of u1 has run since: the entry is gone, and the
\* not-found page of u2 is still cached.
InvalidatedUnderRead ==
    /\ gw.invalidate = {}
    /\ gw.reqs[1].pc = "get"
    /\ gw.reqs[1].id = newCacheId(Bytes("a1"), Bytes("u1"), TRUE)
    /\ Len(gw.reqs[1].results) = 1
    /\ gw.reqs[1].results[1] # {}
    /\ Entry(gw.cache, newCacheId(Bytes("a1"), Bytes("u1"), TRUE)) = <<{}, {}, {}>>
    /\ Entry(gw.cache, newCacheId(Bytes("a1"), Bytes("u2"), FALSE))
          = <<{""}, {"1"}, {snappyEncode(EmptyBody)}>>

\* The entry cacheSet stores for a page that is not found.
NotFoundEntry == <<{""}, {"1"}, {snappyEncode(EmptyBody)}>>

\* C30: a page that renders to not-found is answered 404 and stored in the
\* cache as not-found, key by key; a key of the cache changes only when a
\* request stores the page it has rendered for it or an invalidation runs;
\* and a GET that reads a not-found entry answers 404 from it: the request
\* ends there, with no resolve and no render.
NotFoundServedFromCache ==
    [][\A g \in Gateways :
          /\ (gw.reqs[g].pc = "render" /\ gw'.reqs[g].pc = "set"
                 /\ Shown(objectsColl, publishColl, gw.reqs[g].id) = NilId)
                => /\ gw'.reqs[g].page.IsNotFound
                   /\ last'.status = 404
          /\ (cacheSet(g) /\ gw.reqs[g].page.IsNotFound)
                => LET n == Len(gw.reqs[g].results) + 1
                   IN  Entry(gw'.cache, gw.reqs[g].id)[n] = NotFoundEntry[n]
          /\ \A k \in RedisKeys :
                gw'.cache[k] # gw.cache[k]
                   => \/ \E i \in Identities, u \in Uris : invalidateCache(i, u, TRUE)
                      \/ \E h \in Gateways : cacheSet(h) /\ gw.reqs[h].id = k[1]
          /\ (gw.reqs[g].pc = "get" /\ gw'.reqs[g].pc # "get"
                 /\ Append(gw.reqs[g].results,
                           gw.cache[RedisKey(gw.reqs[g].id, ":body")]) = NotFoundEntry)
                => /\ gw'.reqs[g] = IdleRequest
                   /\ last'.op = "handlePage"
                   /\ last'.id = gw.reqs[g].id
                   /\ last'.status = 404]_vars

\* The last GET was answered 404 from the cache: the request is over with
\* the read of the entry, and the entry is the not-found page.
NotFoundHit ==
    /\ last.op = "handlePage"
    /\ last.status = 404
    /\ gw.reqs[last.gateway].pc = "idle"
    /\ Entry(gw.cache, last.id) = NotFoundEntry

\* C31: when renderPage fails on a miss, in the resolve or in the renderer,
\* the gateway answers 500 and the request is over, with the cache as it
\* was; the request has written nothing before either, its reads leave the
\* cache as it is, and a request comes to cacheSet only from a renderPage
\* that returned a page.
RenderErrorNotCached ==
    [][\A g \in Gateways :
          /\ \A e \in RenderErrors \ {""} :
                renderPage(g, e)
                   => /\ last'.op = "handlePage"
                      /\ last'.status = 500
                      /\ last'.id = gw.reqs[g].id
                      /\ gw'.reqs[g] = IdleRequest
                      /\ gw'.cache = gw.cache
          /\ (gw.reqs[g].pc \in {"idle", "get"} /\ gw'.reqs[g].pc \in {"get", "render"}
                 /\ gw'.reqs[g] # gw.reqs[g])
                => gw'.cache = gw.cache
          /\ (gw.reqs[g].pc # "set" /\ gw'.reqs[g].pc = "set")
                => /\ renderPage(g, "")
                   /\ last'.status \in {200, 404}]_vars

\* Gateway 1 has answered 500 for a key that holds the page of the other
\* build: a miss by the render version, a failed render, and the entry is
\* still there.
RenderFailedOnStaleEntry ==
    /\ last.op = "handlePage"
    /\ last.status = 500
    /\ last.gateway = 1
    /\ gw.reqs[1].pc = "idle"
    /\ Entry(gw.cache, last.id)[1] = {renderVersion(2)}
    /\ Entry(gw.cache, last.id)[2] = {"0"}
    /\ Entry(gw.cache, last.id)[3] # {}

\* The Objects whose activePublishId names no stored Publish.
Dangling(objs, pubs) ==
    {o \in objs : o.activePublishId # NilId /\ ~HasPublish(pubs, o.activePublishId)}

\* C32: for an Object whose activePublishId names a Publish that is no
\* longer stored, ResolveUri and GetPublishStatus return, without error, the
\* Object with activePublishId nil and no Publish.
DanglingResolved ==
    \A o \in Dangling(objectsColl, publishColl) :
        LET r == [err |-> "", object |-> [o EXCEPT !.activePublishId = NilId],
                  publish |-> NoPublish]
        IN  /\ ResolveUri(objectsColl, publishColl, o.identity, o.uri) = r
            /\ ObjectPublishStatus(objectsColl, publishColl, o) = {r}

\* C33: ObjectPublishStatus and ResolveUri return for a stored Object the
\* Object itself, under its derived id, and no Publish while it has no
\* activePublishId, whatever reservations are pending; a Publish they
\* return is the one activePublishId names, and is not in status CREATED.
PendingNotVisible ==
    \A o \in objectsColl :
        \A r \in ObjectPublishStatus(objectsColl, publishColl, o)
                    \cup {ResolveUri(objectsColl, publishColl, o.identity, o.uri)} :
            /\ r.object.identity = o.identity
            /\ r.object.spaceId = o.spaceId
            /\ r.object.objectId = o.objectId
            /\ r.object.id = DerivedId(r.object.identity, r.object.uri)
            /\ r.object \in objectsColl \/ r.err = "ErrNoDocuments"
            /\ IF r.object.activePublishId = NilId THEN r.publish = NoPublish
               ELSE /\ r.publish.id = r.object.activePublishId
                    /\ r.publish \in publishColl
                    /\ r.publish.status # PublishStatusCreated

\* Publish has just reserved for an Object that was never uploaded: the
\* CREATED Publish is stored, and the status query returns none.
ReservedNotShown ==
    /\ last = Ret("Publish", "")
    /\ \E o \in objectsColl :
          /\ o.activePublishId = NilId
          /\ \E p \in publishColl : p.objectId = o.id /\ p.status = PublishStatusCreated
          /\ ObjectPublishStatus(objectsColl, publishColl, o)
                = {[err |-> "", object |-> o, publish |-> NoPublish]}

\* C34: IterateReadyToDeleteIds calls the visitor once for each Publish in
\* status READY_TO_DELETE and for no other Publish, as long as the visitor
\* returns no error; at the first error of the visitor it stops and
\* returns the error.
VisitsReadyToDelete ==
    \A failAt \in 0..MaxPublishes :
        LET r == IterateReadyToDeleteIds(publishColl, failAt)
            ready == {p.id : p \in {q \in publishColl :
                                       q.status = PublishStatusReadyToDelete}}
        IN  /\ \A i, j \in 1..Len(r.visited) : i # j => r.visited[i] # r.visited[j]
            /\ CursorIds(r.visited) \subseteq ready
            /\ r.err = "" <=> failAt \notin 1..Cardinality(ready)
            /\ r.err = "" => CursorIds(r.visited) = ready
            /\ r.err # "" => Len(r.visited) = failAt

\* Two Publishes wait in status READY_TO_DELETE: a visitor that fails at
\* its first call is not called for the second.
TwoReadyToDelete ==
    /\ Len(IterateReadyToDeleteIds(publishColl, 0).visited) = 2
    /\ Len(IterateReadyToDeleteIds(publishColl, 1).visited) = 1
    /\ IterateReadyToDeleteIds(publishColl, 1).err # ""

\* C35: the status of a stored Publish only moves forward along CREATED,
\* PUBLISHED, READY_TO_DELETE (the order of the values of PublishStatus):
\* no step takes a Publish to an earlier status.
StatusMovesForward ==
    [][\A p \in publishColl : \A q \in publishColl' :
          q.id = p.id => q.status >= p.status]_vars

\* Two inner objects of one identity with their uploads: o1 is published
\* in version v1 and o2 in version v2, so that the version a Publish was
\* created with tells the inner object it was reserved for.
VersionOf(objectId) == IF objectId = "o1" THEN "v1" ELSE "v2"

TakeoverNext ==
    \/ Repository({1}, {"o1"}, Uris, {VersionOf("o1")})
    \/ Repository({1}, {"o2"}, Uris, {VersionOf("o2")})
    \/ UploadsOf({1}, {TarAtLimit})

TakeoverSpec == InitWith(MaxPublishes) /\ [][TakeoverNext]_vars

\* C36: an upload activates its Publish only on the Object of the inner
\* object the Publish was reserved for: the Publish an Object has as
\* activePublishId was created by a Publish call for the (identity, space,
\* object) of that Object.
ActivatesOwnObject ==
    \A obj \in objectsColl :
        (obj.activePublishId # NilId /\ HasPublish(publishColl, obj.activePublishId))
        => ThePublish(publishColl, obj.activePublishId).version = VersionOf(obj.objectId)

\* C37: an UploadTar that returns success has set, in the transaction of
\* FinalizePublish, the activePublishId of some Object to the uploaded
\* Publish; after it no Publish in status PUBLISHED is left that no Object
\* references.
SuccessActivates ==
    [][\A u \in UploadSlots :
          (UploadFinalize(u, 0) /\ last'.err = "")
          => /\ \E obj \in objectsColl' : obj.activePublishId = uploads[u].publishId
             /\ \A p \in publishColl' :
                   p.status = PublishStatusPublished
                   => \E obj \in objectsColl' : obj.activePublishId = p.id]_vars

\* C38: DeletePath is never called on the id of a Publish that is the
\* activePublishId of an Object: neither by the deferred cleanup of a
\* failed UploadTar nor by a Cleanup tick.
Active(objs) == {obj.activePublishId : obj \in objs} \ {NilId}

ActiveBlobsKept ==
    [][/\ \A u \in UploadSlots :
             (\E ok \in BOOLEAN : UploadFailed(u, ok))
             => uploads[u].publishId \notin Active(objectsColl)
       /\ (\E ok \in BOOLEAN : CleanupDeletePath(ok))
          => Head(gc.cursor) \notin Active(objectsColl)]_vars

\* Two identities that publish the same inner object of the same space
\* under the same uris, with the uploads of their publishes; a1 unpublishes
\* it, and publishes a second inner object under the first uri.
TwoIdentities == {"a1", "a2"}

IsolationNext ==
    \/ \E i \in TwoIdentities, u \in Uris : Publish(1, i, "s1", "o1", u, "v1")
    \/ Publish(1, "a1", "s1", "o2", "u1", "v1")
    \/ PublishCommit(1)
    \/ UnPublish(1, "a1", "s1", "o1")
    \/ UnPublishCommit(1)
    \/ UploadsOf({1}, {TarAtLimit})

IsolationSpec == InitWith(FewPublishes) /\ [][IsolationNext]_vars

\* The Objects of an identity, and the Publishes created for its Objects.
OwnObjects(objs, identity) == {o \in objs : o.identity = identity}
OwnPublishes(pubs, identity) ==
    {p \in pubs : \E u \in Uris : p.objectId = DerivedId(identity, u)}

\* A step of an RPC of the identity that may write: its Publish or
\* UnPublish opens a transaction, or its transaction commits.
ByIdentity(s, identity) ==
    \/ txs[s].op = "" /\ txs'[s].op # "" /\ txs'[s].object.identity = identity
    \/ txs[s].op # "" /\ txs'[s].op = "" /\ txs[s].object.identity = identity

\* A Publish or UnPublish returns an error in the step.
Refused == last'.op \in {"Publish", "UnPublish"} /\ last'.err # ""

\* A query result holds nothing but documents of the identity.
Mine(r, identity) ==
    /\ r.object = NoObject \/ r.object.identity = identity
    /\ r.publish = NoPublish \/ r.publish \in OwnPublishes(publishColl, identity)

\* What a transaction body leaves: its error and the documents it wrote.
Outcome(st) ==
    [err |-> st.err, w |-> st.w,
     objs |-> {o \in st.objs : ObjKey(o.id) \in st.w},
     pubs |-> {p \in st.pubs : PubKey(p.id) \in st.w}]

\* The calls of identity a give on the collections objs, pubs what they
\* give on the stored ones.
SameOutcomes(a, objs, pubs) ==
    LET own == Session(objs, pubs)
        all == Session(objectsColl, publishColl)
        id == NewObjectID(now, nextId + 1)
        key == NewUploadKey(nextId + 1)
    IN  /\ \A u \in Uris :
              ResolveUri(objs, pubs, a, u) = ResolveUri(objectsColl, publishColl, a, u)
        /\ ListPublishes(objs, pubs, a, "") = ListPublishes(objectsColl, publishColl, a, "")
        /\ \A o \in ObjectIds :
              LET object == Request(a, "s1", o, "")
                  found == FindByObject(objectsColl, object)
              IN  /\ ObjectPublishStatus(objs, pubs, object)
                     = ObjectPublishStatus(objectsColl, publishColl, object)
                  /\ FindByObject(objs, object) = found
                  /\ \A existing \in (IF found = {} THEN {NoObject} ELSE found) :
                        /\ Outcome(ObjectDeleteBody(own, existing))
                           = Outcome(ObjectDeleteBody(all, existing))
                        /\ \A u \in Uris :
                              Outcome(ObjectCreateBody(own, [object EXCEPT !.uri = u], "v1",
                                                       existing, now, id, key))
                              = Outcome(ObjectCreateBody(all, [object EXCEPT !.uri = u], "v1",
                                                         existing, now, id, key))

\* What the queries of the identity return is its own.
ReturnsOwn(a) ==
    /\ \A u \in Uris : Mine(ResolveUri(objectsColl, publishColl, a, u), a)
    /\ \A r \in ListPublishes(objectsColl, publishColl, a, "") : Mine(r, a)
    /\ \A o \in ObjectIds :
          \A r \in ObjectPublishStatus(objectsColl, publishColl, Request(a, "s1", o, "")) :
             Mine(r, a)

\* C39: identities are isolated.  A step of an RPC of identity a leaves
\* the Objects and Publishes of another identity b as they are; the
\* queries of a return documents of a only; and ResolveUri,
\* GetPublishStatus, ListPublishes, Publish and UnPublish of a give, error
\* included, what they would give with the documents of b taken away.
IdentitiesIsolated ==
    /\ [](\A a \in TwoIdentities : \A b \in TwoIdentities \ {a} :
             /\ ReturnsOwn(a)
             /\ SameOutcomes(a, objectsColl \ OwnObjects(objectsColl, b),
                             publishColl \ OwnPublishes(publishColl, b)))
    /\ [][\A a \in TwoIdentities : \A b \in TwoIdentities \ {a} :
             (Refused \/ \E s \in TxSlots : ByIdentity(s, a))
             => /\ OwnObjects(objectsColl', b) = OwnObjects(objectsColl, b)
                /\ OwnPublishes(publishColl', b) = OwnPublishes(publishColl, b)]_vars

\* Both identities hold the Object of (s1, o1) under the uri u1, that of
\* a1 with an active publish, and the Publish of a1 for another inner
\* object under u1 has just returned URI_NOT_UNIQUE.
SameUriTwoIdentities ==
    /\ last = Ret("Publish", "ErrUriNotUnique")
    /\ \A i \in TwoIdentities :
          \E o \in objectsColl : o.identity = i /\ o.uri = "u1" /\ o.objectId = "o1"
    /\ \E o \in objectsColl : o.identity = "a1" /\ o.activePublishId # NilId

\* ------------------------------------------------------------ cache keys
\* The identities and uris a key is built of: the strings of at most
\* MaxLen bytes out of the zero byte, "/" and "1".
MaxLen == 2
KeyBytes == {0, 47, 49}
KeyStrings == UNION {[1..n -> KeyBytes] : n \in 0..MaxLen}

\* A page request with its identity, uri and withName, before handlePage
\* builds the key.
PageRequest(identity, uri, withName) ==
    [op |-> "request", identity |-> identity, uri |-> uri, withName |-> withName]

KeyInit ==
    /\ budget = 0
    /\ objectsColl = {}
    /\ publishColl = {}
    /\ blobs = {}
    /\ now = 0
    /\ nextId = 0
    /\ txs = [s \in TxSlots |-> IdleTx]
    /\ uploads = [u \in UploadSlots |-> IdleUpload]
    /\ gc = IdleGc
    /\ hist = [ok |-> {}, twice |-> {}, unpub |-> {}]
    /\ gw = NoGateway
    /\ last \in {PageRequest(i, u, w) : i \in KeyStrings, u \in KeyStrings, w \in BOOLEAN}

\* handlePage: newCacheId(identity, uri, withName).
CacheIdBuilt ==
    /\ last.op = "request"
    /\ last' = [op |-> "newCacheId", identity |-> last.identity, uri |-> last.uri,
                withName |-> last.withName,
                key |-> newCacheId(last.identity, last.uri, last.withName)]
    /\ UNCHANGED <<objectsColl, publishColl, blobs, now, nextId, txs, uploads, gc, hist,
                   budget, gw>>

\* renderPage: cId.Identity(), cId.Uri() and cId.WithName() of the key.
CacheIdRead ==
    /\ last.op = "newCacheId"
    /\ last' = [op |-> "getElement", identity |-> last.identity, uri |-> last.uri,
                withName |-> last.withName, key |-> last.key,
                Identity |-> Identity(last.key), Uri |-> Uri(last.key),
                WithName |-> WithName(last.key)]
    /\ UNCHANGED <<objectsColl, publishColl, blobs, now, nextId, txs, uploads, gc, hist,
                   budget, gw>>

KeyNext == CacheIdBuilt \/ CacheIdRead

KeySpec == KeyInit /\ [][KeyNext]_vars

\* A string without the byte of cacheIdSep.
SepFree(str) == \A k \in 1..Len(str) : <<str[k]>> # cacheIdSep

\* C40: for an identity and a uri without the zero byte, and either
\* withName, Identity(), Uri() and WithName() of the key of newCacheId give
\* back the identity, the uri and the flag, and the key of any other such
\* (identity, uri, withName) is another key.
KeyRoundTrip ==
    (last.op \in {"newCacheId", "getElement"} /\ SepFree(last.identity) /\ SepFree(last.uri))
    => /\ last.op = "getElement"
          => /\ last.Identity = last.identity
             /\ last.Uri = last.uri
             /\ last.WithName = last.withName
       /\ \A i \in KeyStrings, u \in KeyStrings, w \in BOOLEAN :
             (SepFree(i) /\ SepFree(u) /\ <<i, u, w>> # <<last.identity, last.uri, last.withName>>)
             => newCacheId(i, u, w) # last.key

\* The key of a uri with "/" in it and of an identity that is the text of
\* the flag has been taken apart.
SlashUriKeyRead ==
    /\ last.op = "getElement"
    /\ last.identity = <<49>> /\ last.uri = <<47, 49>> /\ last.withName
    /\ last.Identity = <<49>> /\ last.Uri = <<47, 49>> /\ last.WithName

====
